---- MODULE Spec2Model ----
(***************************************************************************)
(* A state-machine model of the term simplifier                            *)
(* src/library/simplifier/simplifier.cpp (class simplifier_fn).            *)
(*                                                                         *)
(* The recursive C++ methods are run on an explicit call stack: every      *)
(* method that can call the driver `simplify` has a frame kind, and every  *)
(* action executes the code of one method from one call of the driver to   *)
(* the next (or to its return).  Scoped guards (flet, freset,              *)
(* updt_rule_set) are kept in the frame that declares them and are undone  *)
(* when the frame is popped, by return or by exception unwinding.          *)
(***************************************************************************)
EXTENDS Integers, Sequences, FiniteSets, TLC

(***************************************************************************)
(* Expressions.  An expression is a tagged tuple; proofs are expressions.  *)
(***************************************************************************)
Var(i)         == <<"var", i>>
Const(n)       == <<"const", n>>
Val(s)         == <<"value", s>>
TypeE          == <<"type">>
MVar(n)        == <<"mvar", n>>
AppN(as)       == <<"app", as>>
Lam(n, d, b)   == <<"lam", n, d, b>>
PiE(n, d, b)   == <<"pi", n, d, b>>
LetE(n, v, b)  == <<"let", n, v, b>>
\* A default-constructed expr (null cell): what a resized buffer slot holds.
NullE          == <<"null">>

kind(e)        == e[1]
is_var(e)      == kind(e) = "var"
is_constant(e) == kind(e) = "const"
is_value(e)    == kind(e) = "value"
is_app(e)      == kind(e) = "app"
is_lambda(e)   == kind(e) = "lam"
is_pi(e)       == kind(e) = "pi"
is_let(e)      == kind(e) = "let"
is_abst(e)     == is_lambda(e) \/ is_pi(e)
var_idx(e)     == e[2]
const_name(e)  == e[2]
args(e)        == e[2]
num_args(e)    == Len(e[2])
arg(e, i)      == e[2][i + 1]        \* arg(e, 0) is the head
abst_name(e)   == e[2]
abst_domain(e) == e[3]
abst_body(e)   == e[4]
let_value(e)   == e[3]
let_body(e)    == e[4]

\* kernel mk_app: ((app a b) c) is represented as (app a b c).
mk_app(as) ==
    IF is_app(as[1]) THEN AppN(args(as[1]) \o Tail(as)) ELSE AppN(as)

App2(f, a)             == mk_app(<<f, a>>)
App3(f, a, b)          == mk_app(<<f, a, b>>)
App4(f, a, b, c)       == mk_app(<<f, a, b, c>>)
App5(f, a, b, c, d)    == mk_app(<<f, a, b, c, d>>)

update_app(e, i, v)    == AppN([args(e) EXCEPT ![i + 1] = v])

(***************************************************************************)
(* Free-variable utilities (kernel/free_vars, instantiate, abstract).      *)
(***************************************************************************)
RECURSIVE lift_free_vars(_, _, _)
lift_free_vars(e, s, d) ==
    CASE is_var(e)    -> IF var_idx(e) >= s THEN Var(var_idx(e) + d) ELSE e
      [] is_app(e)    -> AppN([i \in 1..num_args(e) |-> lift_free_vars(args(e)[i], s, d)])
      [] is_abst(e)   -> <<kind(e), abst_name(e), lift_free_vars(abst_domain(e), s, d),
                           lift_free_vars(abst_body(e), s + 1, d)>>
      [] is_let(e)    -> LetE(e[2], lift_free_vars(let_value(e), s, d),
                              lift_free_vars(let_body(e), s + 1, d))
      [] OTHER        -> e

RECURSIVE lower_free_vars(_, _, _)
lower_free_vars(e, s, d) ==
    CASE is_var(e)    -> IF var_idx(e) >= s THEN Var(var_idx(e) - d) ELSE e
      [] is_app(e)    -> AppN([i \in 1..num_args(e) |-> lower_free_vars(args(e)[i], s, d)])
      [] is_abst(e)   -> <<kind(e), abst_name(e), lower_free_vars(abst_domain(e), s, d),
                           lower_free_vars(abst_body(e), s + 1, d)>>
      [] is_let(e)    -> LetE(e[2], lower_free_vars(let_value(e), s, d),
                              lower_free_vars(let_body(e), s + 1, d))
      [] OTHER        -> e

RECURSIVE has_free_var(_, _)
has_free_var(e, i) ==
    CASE is_var(e)    -> var_idx(e) = i
      [] is_app(e)    -> \E k \in 1..num_args(e) : has_free_var(args(e)[k], i)
      [] is_abst(e)   -> has_free_var(abst_domain(e), i) \/ has_free_var(abst_body(e), i + 1)
      [] is_let(e)    -> has_free_var(let_value(e), i) \/ has_free_var(let_body(e), i + 1)
      [] OTHER        -> FALSE

\* instantiate_at(e, k, v): variable k becomes v (lifted over the k binders
\* crossed), the variables above k are lowered by one.
RECURSIVE instantiate_at(_, _, _)
instantiate_at(e, k, v) ==
    CASE is_var(e)    -> IF var_idx(e) = k THEN lift_free_vars(v, 0, k)
                         ELSE IF var_idx(e) > k THEN Var(var_idx(e) - 1) ELSE e
      [] is_app(e)    -> mk_app([i \in 1..num_args(e) |-> instantiate_at(args(e)[i], k, v)])
      [] is_abst(e)   -> <<kind(e), abst_name(e), instantiate_at(abst_domain(e), k, v),
                           instantiate_at(abst_body(e), k + 1, v)>>
      [] is_let(e)    -> LetE(e[2], instantiate_at(let_value(e), k, v),
                              instantiate_at(let_body(e), k + 1, v))
      [] OTHER        -> e

instantiate(e, v) == instantiate_at(e, 0, v)

\* instantiate(e, n, s): the n outermost-bound pattern variables of a rule
\* are replaced by s[1..n]; s[i] is the value of the i-th binder of the
\* rule's equation, which is variable n - i inside the n binders.
RECURSIVE instantiate_n(_, _, _)
instantiate_n(e, n, s) ==
    IF n = 0 THEN e ELSE instantiate_n(instantiate(e, s[n]), n - 1, s)

\* abstract(e, c): the occurrences of the closed term c become variable 0.
RECURSIVE abstract_at(_, _, _)
abstract_at(e, c, k) ==
    IF e = c THEN Var(k)
    ELSE CASE is_var(e)  -> IF var_idx(e) >= k THEN Var(var_idx(e) + 1) ELSE e
           [] is_app(e)  -> AppN([i \in 1..num_args(e) |-> abstract_at(args(e)[i], c, k)])
           [] is_abst(e) -> <<kind(e), abst_name(e), abstract_at(abst_domain(e), c, k),
                              abstract_at(abst_body(e), c, k + 1)>>
           [] is_let(e)  -> LetE(e[2], abstract_at(let_value(e), c, k),
                                 abstract_at(let_body(e), c, k + 1))
           [] OTHER      -> e

abstract(e, c) == abstract_at(e, c, 0)

\* A Pi whose body does not use the bound variable.
is_arrow(t) == is_pi(t) /\ ~has_free_var(abst_body(t), 0)

\* head_beta_reduce: (fun x, b) a1 ... an
RECURSIVE head_beta_reduce(_)
head_beta_reduce(e) ==
    IF is_app(e) /\ is_lambda(arg(e, 0))
    THEN LET r == instantiate(abst_body(arg(e, 0)), arg(e, 1))
         IN  IF num_args(e) = 2 THEN r
             ELSE head_beta_reduce(mk_app(<<r>> \o SubSeq(args(e), 3, num_args(e))))
    ELSE e

(***************************************************************************)
(* The environment: the constants of the object theory and their types.    *)
(***************************************************************************)
N     == Const("N")
Bool  == Const("Bool")
TyA   == Const("A")
TyB   == Const("B")
True  == Val("true")
False == Val("false")
ErrT  == Const("#ill_typed")

Arrow(d, r) == PiE("_", d, lift_free_vars(r, 0, 1))

\* The numerals known to the evaluator; a numeral is the value Val(NumStr[n+1]).
NumStr == <<"0", "1", "2", "3", "4", "5", "6">>
is_num(s) == \E i \in 1..Len(NumStr) : NumStr[i] = s
num_of(s) == (CHOOSE i \in 1..Len(NumStr) : NumStr[i] = s) - 1

const_type(n) ==
    CASE n \in {"N", "Bool", "A", "B"}          -> TypeE
      [] n \in {"a", "b", "c", "d", "two"}      -> N
      [] n \in {"f", "g"}                       -> Arrow(N, N)
      [] n = "add"                              -> Arrow(N, Arrow(N, N))
      [] n \in {"p", "q", "r"}                  -> Bool
      [] n = "not"                              -> Arrow(Bool, Bool)
      [] n = "and"                              -> Arrow(Bool, Arrow(Bool, Bool))
      [] n = "pick"                             -> PiE("_", Const("q"), Const("N"))
      [] n = "eqt_elim" -> PiE("a", Const("Bool"),
                             PiE("_", mk_app(<<Const("eq"), Const("Bool"), Var(0),
                                               Val("true")>>), Var(1)))
      [] n = "eq"   -> PiE("A", TypeE, PiE("_", Var(0), PiE("_", Var(1), Bool)))
      [] n = "ite"  -> PiE("A", TypeE, PiE("_", Bool,
                           PiE("_", Var(1), PiE("_", Var(2), Var(3)))))
      [] n = "cast" -> PiE("A", TypeE, PiE("B", TypeE,
                           PiE("_", mk_app(<<Const("eq"), TypeE, Var(1), Var(0)>>),
                               PiE("_", Var(2), Var(2)))))
      [] n = "hAB"                              -> mk_app(<<Const("eq"), TypeE, TyA, TyB>>)
      [] n = "k"                                -> Arrow(N, Arrow(TyA, N))
      [] n = "hAA"                              -> mk_app(<<Const("eq"), TypeE, TyA, TyA>>)
      [] n \in {"u", "w"}                       -> TyA
      [] n = "v"                                -> TyB
      [] n = "V"                                -> Arrow(N, TypeE)
      [] n = "mk"                               -> PiE("n", N, App2(Const("V"), Var(0)))
      [] n = "len"  -> PiE("n", N, Arrow(App2(Const("V"), Var(0)), N))
      [] OTHER                                  -> ErrT

\* environment objects: definitions that may be unfolded, and builtins
should_unfold(n) == n = "d"
is_builtin(n)    == n = "two"
get_value(n)     == CASE n = "d"   -> App2(Const("f"), Const("a"))
                      [] n = "two" -> Val("2")
                      [] OTHER     -> Const(n)

is_eq(e)   == is_app(e) /\ arg(e, 0) = Const("eq")  /\ num_args(e) = 4
is_neq(e)  == is_app(e) /\ arg(e, 0) = Const("neq") /\ num_args(e) = 4
is_heq(e)  == is_app(e) /\ arg(e, 0) = Const("heq") /\ num_args(e) = 5
is_cast(e) == is_app(e) /\ arg(e, 0) = Const("cast") /\ num_args(e) = 5

(***************************************************************************)
(* The kernel type checker and normalizer, as far as the simplifier uses   *)
(* them.  A context is a sequence of <<name, type>>, innermost last.       *)
(***************************************************************************)
extend(ctx, n, d) == Append(ctx, <<n, d>>)

ensure_pi(t) == t

RECURSIVE infer_type(_, _)
RECURSIVE app_type(_, _, _)
app_type(t, as, k) ==
    IF k > Len(as) THEN t
    ELSE IF ~is_pi(t) THEN ErrT
    ELSE app_type(instantiate(abst_body(t), as[k]), as, k + 1)

infer_type(e, ctx) ==
    CASE is_constant(e) -> const_type(const_name(e))
      [] is_value(e)    -> IF e[2] \in {"true", "false"} THEN Bool ELSE N
      [] is_var(e)      -> IF var_idx(e) < Len(ctx)
                           THEN lift_free_vars(ctx[Len(ctx) - var_idx(e)][2], 0, var_idx(e) + 1)
                           ELSE ErrT
      [] is_app(e)      -> app_type(infer_type(arg(e, 0), ctx), args(e), 2)
      [] is_lambda(e)   -> PiE(abst_name(e), abst_domain(e),
                               infer_type(abst_body(e), extend(ctx, abst_name(e), abst_domain(e))))
      [] is_pi(e)       -> IF infer_type(abst_body(e), extend(ctx, abst_name(e), abst_domain(e))) = Bool
                           THEN Bool ELSE TypeE
      [] is_let(e)      -> infer_type(instantiate(let_body(e), let_value(e)), ctx)
      [] OTHER          -> TypeE

is_definitionally_equal(t1, t2) == t1 = t2
is_convertible(t1, t2)          == t1 = t2
is_proposition(e, ctx)          == infer_type(e, ctx) = Bool

\* normalizer: head beta reduction and evaluation of builtins on values
normalize(e) ==
    LET b == head_beta_reduce(e) IN
    IF ~is_app(b) THEN b
    ELSE LET h == arg(b, 0) IN
         CASE h = Const("add") /\ num_args(b) = 3 /\ is_value(arg(b, 1)) /\ is_value(arg(b, 2))
                /\ is_num(arg(b, 1)[2]) /\ is_num(arg(b, 2)[2])
                /\ num_of(arg(b, 1)[2]) + num_of(arg(b, 2)[2]) < Len(NumStr)
                -> Val(NumStr[num_of(arg(b, 1)[2]) + num_of(arg(b, 2)[2]) + 1])
           [] is_eq(b) /\ is_value(arg(b, 2)) /\ is_value(arg(b, 3))
                -> IF arg(b, 2) = arg(b, 3) THEN True ELSE False
           [] h = Const("not") /\ num_args(b) = 2 /\ arg(b, 1) \in {True, False}
                -> IF arg(b, 1) = True THEN False ELSE True
           [] OTHER -> b

\* pi_body_at(pi, a): the body of a Pi with a substituted for its variable
pi_body_at(t, a) == instantiate(abst_body(t), a)

(***************************************************************************)
(* Equality theorem builders (kernel.h, heq_decls.h, cast_decls.h).  Each  *)
(* builds the application of the named theorem to its arguments.           *)
(***************************************************************************)
mk_eq(A, a, b)                       == mk_app(<<Const("eq"), A, a, b>>)
mk_not(a)                            == mk_app(<<Const("not"), a>>)
mk_refl_th(A, a)                     == mk_app(<<Const("refl"), A, a>>)
mk_hrefl_th(A, a)                    == mk_app(<<Const("hrefl"), A, a>>)
mk_trans_th(A, a, b, c, H1, H2)      == mk_app(<<Const("trans"), A, a, b, c, H1, H2>>)
mk_htrans_th(A, B, C, a, b, c, H1, H2) ==
    mk_app(<<Const("htrans"), A, B, C, a, b, c, H1, H2>>)
mk_to_eq_th(A, a, b, H)              == mk_app(<<Const("to_eq"), A, a, b, H>>)
mk_to_heq_th(A, a, b, H)             == mk_app(<<Const("to_heq"), A, a, b, H>>)
mk_subst_th(A, a, b, P, H1, H2)      == mk_app(<<Const("subst"), A, a, b, P, H1, H2>>)
kernel_congr1_th(A, B, f, g, a, H)   == mk_app(<<Const("congr1"), A, B, f, g, a, H>>)
kernel_congr2_th(A, B, a, b, f, H)   == mk_app(<<Const("congr2"), A, B, a, b, f, H>>)
kernel_congr_th(A, B, f, g, a, b, H1, H2) ==
    mk_app(<<Const("congr"), A, B, f, g, a, b, H1, H2>>)
kernel_hcongr_th(A, A2, B, B2, f, g, a, b, H1, H2) ==
    mk_app(<<Const("hcongr"), A, A2, B, B2, f, g, a, b, H1, H2>>)
mk_eta_th(A, B, f)                   == mk_app(<<Const("eta"), A, B, f>>)
mk_funext_th(A, B, f, g, H)          == mk_app(<<Const("funext"), A, B, f, g, H>>)
mk_allext_th(A, P, Q, H)             == mk_app(<<Const("allext"), A, P, Q, H>>)
mk_eqt_elim_th(a, H)                 == mk_app(<<Const("eqt_elim"), a, H>>)
mk_trivial                           == Const("trivial")
mk_cast_heq_fn                       == Const("cast_heq")

(***************************************************************************)
(* expr_lt: the total order on expressions used by the permutation guard.  *)
(***************************************************************************)
KindOrder == <<"var", "const", "value", "type", "mvar", "app", "lam", "pi", "let", "null">>
NameOrder == <<"0", "1", "2", "3", "4", "5", "6", "true", "false", "_", "x", "n", "h",
               "A", "B", "N", "Bool", "V", "a", "b", "c", "d", "two", "u", "w", "p", "q", "r",
               "f", "g", "add", "not", "eq", "ite", "cast", "hAB", "mk", "len", "and", "pick", "v", "hAA", "k">>
rank_in(seq, x) == IF \E i \in 1..Len(seq) : seq[i] = x
                   THEN CHOOSE i \in 1..Len(seq) : seq[i] = x ELSE 0

RECURSIVE is_lt(_, _)
RECURSIVE seq_lt(_, _, _)
seq_lt(xs, ys, k) ==
    IF k > Len(xs) THEN FALSE
    ELSE IF xs[k] = ys[k] THEN seq_lt(xs, ys, k + 1)
    ELSE is_lt(xs[k], ys[k])

is_lt(a, b) ==
    IF a = b THEN FALSE
    ELSE IF kind(a) # kind(b) THEN rank_in(KindOrder, kind(a)) < rank_in(KindOrder, kind(b))
    ELSE CASE is_var(a)  -> var_idx(a) < var_idx(b)
           [] is_constant(a) \/ is_value(a) \/ kind(a) = "mvar"
                         -> rank_in(NameOrder, a[2]) < rank_in(NameOrder, b[2])
           [] is_app(a)  -> IF num_args(a) # num_args(b) THEN num_args(a) < num_args(b)
                            ELSE seq_lt(args(a), args(b), 1)
           [] is_abst(a) \/ is_let(a)
                         -> seq_lt(<<a[3], a[4]>>, <<b[3], b[4]>>, 1)
           [] OTHER      -> FALSE

(***************************************************************************)
(* hop_match: matching of a rule's left-hand side against a term.  The     *)
(* pattern variables are the free variables of the pattern; subst[i] is    *)
(* the value found for the i-th binder of the rule's equation (variable    *)
(* num - i of the pattern).  An optional value is <<>> or <<v>>.           *)
(***************************************************************************)
none_expr    == <<>>
some_expr(e) == <<e>>
is_some(o)   == o # <<>>
the(o)       == o[1]

RECURSIVE hop_match_at(_, _, _)
RECURSIVE hop_match_args(_, _, _, _)
hop_match_args(ps, ts, k, st) ==
    IF ~st.ok \/ k > Len(ps) THEN st
    ELSE hop_match_args(ps, ts, k + 1, hop_match_at(ps[k], ts[k], st))

hop_match_at(p, t, st) ==
    IF ~st.ok THEN st
    ELSE IF is_var(p)
         THEN LET i == Len(st.subst) - var_idx(p) IN
              IF i < 1 THEN [st EXCEPT !.ok = FALSE]
              ELSE IF ~is_some(st.subst[i])
                   THEN [st EXCEPT !.subst[i] = some_expr(t)]
                   ELSE [st EXCEPT !.ok = (the(st.subst[i]) = t)]
         ELSE IF is_app(p)
              THEN IF is_app(t) /\ num_args(t) = num_args(p)
                   THEN hop_match_args(args(p), args(t), 1, st)
                   ELSE [st EXCEPT !.ok = FALSE]
              ELSE [st EXCEPT !.ok = (p = t)]

\* hop_match(p, t, subst) with subst cleared and resized to num
hop_match(p, t, num) ==
    hop_match_at(p, t, [ok |-> TRUE, subst |-> [i \in 1..num |-> none_expr]])

(***************************************************************************)
(* Rewrite rules and rule sets (rewrite_rule_set.h).                       *)
(***************************************************************************)
Rule(id, lhs, rhs, ceq, num, perm) ==
    [id |-> id, lhs |-> lhs, rhs |-> rhs, ceq |-> ceq, proof |-> Const(id),
     num_args |-> num, is_permutation |-> perm]

f_(x)      == App2(Const("f"), x)
g_(x)      == App2(Const("g"), x)
add_(x, y) == App3(Const("add"), x, y)
and_(x, y) == mk_app(<<Const("and"), x, y>>)
ite_(A, c, x, y) == App5(Const("ite"), A, c, x, y)
cast_(A, B, H, x) == App5(Const("cast"), A, B, H, x)
ca == Const("a")
cb == Const("b")
cc == Const("c")
cp == Const("p")
cq == Const("q")

\* f a = b
R_fa   == Rule("H_fa", f_(ca), cb, mk_eq(N, f_(ca), cb), 0, FALSE)
\* a = b  and  b = a : a looping pair
R_ab   == Rule("H_ab", ca, cb, mk_eq(N, ca, cb), 0, FALSE)
R_ba   == Rule("H_ba", cb, ca, mk_eq(N, cb, ca), 0, FALSE)
\* c = a
R_ca   == Rule("H_ca", cc, ca, mk_eq(N, cc, ca), 0, FALSE)
\* q = true
R_q    == Rule("H_q", cq, True, mk_eq(Bool, cq, True), 0, FALSE)
\* u = w  (in type A)
R_uw   == Rule("H_uw", Const("u"), Const("w"), mk_eq(TyA, Const("u"), Const("w")), 0, FALSE)
\* forall x y, add x y = add y x : a permutation rule
R_comm == Rule("H_comm", add_(Var(1), Var(0)), add_(Var(0), Var(1)),
               PiE("x", N, PiE("y", N, mk_eq(N, add_(Var(1), Var(0)), add_(Var(0), Var(1))))),
               2, TRUE)
\* forall x, q -> g x = a : a conditional rule
R_cond == Rule("H_cond", g_(Var(1)), ca,
               PiE("x", N, PiE("h", cq, mk_eq(N, g_(Var(1)), ca))), 2, FALSE)
\* forall x (h : q), g x = pick h : the equation depends on the premise
R_dep == Rule("H_dep", g_(Var(1)), App2(Const("pick"), Var(0)),
              PiE("x", N, PiE("h", cq, mk_eq(N, g_(Var(1)), App2(Const("pick"), Var(0))))),
              2, FALSE)
\* forall x y, q -> add x y = add y x : a conditional permutation rule
R_condcomm ==
    Rule("H_ccomm", add_(Var(2), Var(1)), add_(Var(1), Var(2)),
         PiE("x", N, PiE("y", N, PiE("h", cq,
             mk_eq(N, add_(Var(2), Var(1)), add_(Var(1), Var(2)))))), 3, TRUE)
\* forall x, (g x = a) -> g x = a : the premise mentions the left-hand side
R_self == Rule("H_self", g_(Var(1)), ca,
               PiE("x", N, PiE("h", mk_eq(N, g_(Var(0)), ca), mk_eq(N, g_(Var(1)), ca))),
               2, FALSE)
\* forall x (y : N), f x = c : y is not determined and is not a proposition
R_nonprop == Rule("H_np", f_(Var(1)), cc,
                  PiE("x", N, PiE("y", N, mk_eq(N, f_(Var(1)), cc))), 2, FALSE)

\* add a b = c : a rule for a term the permutation rule also matches
R_addab == Rule("H_addab", add_(ca, cb), cc, mk_eq(N, add_(ca, cb), cc), 0, FALSE)
\* c = b : a second rule for c
R_cb   == Rule("H_cb", cc, cb, mk_eq(N, cc, cb), 0, FALSE)
\* forall A x y, ite A true x y = x   and   ite A false x y = y
R_ite_t == Rule("H_ite_t", ite_(Var(2), True, Var(1), Var(0)), Var(1),
                PiE("A", TypeE, PiE("x", Var(0), PiE("y", Var(1),
                    mk_eq(Var(2), ite_(Var(2), True, Var(1), Var(0)), Var(1))))), 3, FALSE)
R_ite_f == Rule("H_ite_f", ite_(Var(2), False, Var(1), Var(0)), Var(0),
                PiE("A", TypeE, PiE("x", Var(0), PiE("y", Var(1),
                    mk_eq(Var(2), ite_(Var(2), False, Var(1), Var(0)), Var(0))))), 3, FALSE)

\* A congruence theorem (congr.h): for head symbol fun, the proof and,
\* per argument, where it goes in the proof application.
ArgInfo(pos, simp, hasctx, dep, newval, posdep, at, newat, proofat) ==
    [arg_pos |-> pos, should_simplify |-> simp, has_context |-> hasctx,
     ctx_arg_pos |-> dep, use_new_val |-> newval, is_pos_dep |-> posdep,
     pos_at_proof |-> at, new_pos_at_proof |-> newat, proof_pos_at_proof |-> proofat]

\* if_congr : b = c -> (c -> x = u) -> (not c -> y = v) ->
\*            ite A b x y = ite A c u v ,  applied to A b c x y u v H_bc H_xu H_yv
if_congr ==
    [fun |-> Const("ite"), proof |-> Const("if_congr"), num_proof_args |-> 10,
     arg_info |-> << ArgInfo(1, FALSE, FALSE, 0, FALSE, FALSE, 0, 0, 0),
                     ArgInfo(2, TRUE,  FALSE, 0, FALSE, FALSE, 1, 2, 7),
                     ArgInfo(3, TRUE,  TRUE,  2, TRUE,  TRUE,  3, 5, 8),
                     ArgInfo(4, TRUE,  TRUE,  2, TRUE,  FALSE, 4, 6, 9) >>]

\* and_congrl : (a -> b = d) -> (d -> a = c) -> and a b = and c d ,  applied to
\* a b c d H_bd H_ac: the second argument is simplified under the first, then
\* the first under the new value of the second
and_congrl ==
    [fun |-> Const("and"), proof |-> Const("and_congrl"), num_proof_args |-> 6,
     arg_info |-> << ArgInfo(2, TRUE, TRUE, 1, FALSE, TRUE, 1, 3, 4),
                     ArgInfo(1, TRUE, TRUE, 2, TRUE,  TRUE, 0, 2, 5) >>]

RuleSet(rules, congr) == [rules |-> rules, congr |-> congr]

\* The head symbol a rule set is indexed by.
head_symbol(e) == IF is_app(e) THEN arg(e, 0) ELSE e

\* find_match(target, fn): the candidate rules, in the set's iteration order
candidates(rs, target) ==
    SelectSeq(rs.rules, LAMBDA r : head_symbol(r.lhs) = head_symbol(target))

\* insert(g_local, fact, proof): the rules a local fact stands for, put in
\* front of the set:  (a = b) gives a -> b,  (not c) gives c -> false,
\* any other proposition c gives c -> true.
fact_rule(fact, proof) ==
    IF is_eq(fact)
    THEN [id |-> "local", lhs |-> arg(fact, 2), rhs |-> arg(fact, 3), ceq |-> fact,
          proof |-> proof, num_args |-> 0, is_permutation |-> FALSE]
    ELSE IF is_app(fact) /\ arg(fact, 0) = Const("not") /\ num_args(fact) = 2
    THEN [id |-> "local", lhs |-> arg(fact, 1), rhs |-> False,
          ceq |-> mk_eq(Bool, arg(fact, 1), False),
          proof |-> mk_app(<<Const("eqf_intro"), arg(fact, 1), proof>>),
          num_args |-> 0, is_permutation |-> FALSE]
    ELSE [id |-> "local", lhs |-> fact, rhs |-> True, ceq |-> mk_eq(Bool, fact, True),
          proof |-> mk_app(<<Const("eqt_intro"), fact, proof>>),
          num_args |-> 0, is_permutation |-> FALSE]

insert(rs, fact, proof) == [rs EXCEPT !.rules = <<fact_rule(fact, proof)>> \o @]

(***************************************************************************)
(* The simplifier object (class simplifier_fn) and the machine running it. *)
(***************************************************************************)
VARIABLES
    input,               \* arguments of the running top-level call: e, ctx, rs, env
    opts,                \* the options of the simplifier (set_options)
    m_ctx,               \* context        m_ctx
    m_rule_sets,         \* rule_sets      m_rule_sets
    m_congr_thms,        \* congr_thms     m_congr_thms
    m_cache,             \* cache          m_cache
    m_contextual_depth,  \* unsigned       m_contextual_depth
    m_num_steps,         \* unsigned       m_num_steps
    stack,               \* the call stack: one frame per active method
    ret,                 \* the result returned by the method that returned last
    status,              \* "idle", "running", "unwinding" or how the call ended
    exc,                 \* the exception being propagated
    calls                \* history: the top-level calls made so far

vars == <<input, opts, m_ctx, m_rule_sets, m_congr_thms, m_cache, m_contextual_depth,
          m_num_steps, stack, ret, status, exc, calls>>

m_proofs_enabled == opts.proofs
m_contextual     == opts.contextual
m_single_pass    == opts.single_pass
m_beta           == opts.beta
m_eta            == opts.eta
m_eval           == opts.eval
m_unfold         == opts.unfold
m_conditional    == opts.conditional
m_memoize        == opts.memoize
m_max_steps      == opts.max_steps
m_has_heq        == input.has_heq
m_has_cast       == input.has_cast

\* unsigned arithmetic
\* unsigned: 32 bits, kept as <<high half, low half>>
HalfRange == 65536
UInt(n)   == <<n \div HalfRange, n % HalfRange>>
UIntMax   == <<HalfRange - 1, HalfRange - 1>>
uint_inc(x) == IF x[2] + 1 < HalfRange THEN <<x[1], x[2] + 1>>
               ELSE IF x[1] + 1 < HalfRange THEN <<x[1] + 1, 0>>
               ELSE <<0, 0>>
uint_gt(x, y) == x[1] > y[1] \/ (x[1] = y[1] /\ x[2] > y[2])

\* struct result
result(out)              == [m_out |-> out, m_proof |-> none_expr, m_heq_proof |-> FALSE]
result_pr(out, pr)       == [m_out |-> out, m_proof |-> some_expr(pr), m_heq_proof |-> FALSE]
result3(out, opr, heq)   == [m_out |-> out, m_proof |-> opr, m_heq_proof |-> heq]

\* The guards a frame holds: for each guarded member, <<>> or <<old value>>.
NoGuards == [ctx |-> <<>>, cache |-> <<>>, rs0 |-> <<>>, depth |-> <<>>]

Top == stack[Len(stack)]
SetTop(fr) == [stack EXCEPT ![Len(stack)] = fr]

tc_infer_type(e) == infer_type(e, m_ctx)

\* translate_eq_proof
translate_eq_proof(A, a, b, H, B) ==
    mk_subst_th(A, a, b, Lam("x", A, mk_eq(B, a, Var(0))), mk_refl_th(B, a), H)

mk_congr1_th(f_type, f, new_f, a, Heq_f) ==
    LET A == abst_domain(f_type)
        B == lower_free_vars(abst_body(f_type), 1, 1)
    IN  kernel_congr1_th(A, B, f, new_f, a, Heq_f)

mk_congr2_th(f_type, a, new_a, f, Heq_a) ==
    LET A      == abst_domain(f_type)
        B      == lower_free_vars(abst_body(f_type), 1, 1)
        a_type == tc_infer_type(a)
        H      == IF ~is_definitionally_equal(A, a_type)
                  THEN translate_eq_proof(a_type, a, new_a, Heq_a, A) ELSE Heq_a
    IN  kernel_congr2_th(A, B, a, new_a, f, H)

mk_congr_th(f_type, f, new_f, a, new_a, Heq_f, Heq_a) ==
    LET A      == abst_domain(f_type)
        B      == lower_free_vars(abst_body(f_type), 1, 1)
        a_type == tc_infer_type(a)
        H      == IF ~is_definitionally_equal(A, a_type)
                  THEN translate_eq_proof(a_type, a, new_a, Heq_a, A) ELSE Heq_a
    IN  kernel_congr_th(A, B, f, new_f, a, new_a, Heq_f, H)

\* mk_hcongr_th, lines 250-256: Heq_a is the proof after the adjustments
hcongr_build(f_type, new_f_type, f, new_f, a, new_a, Heq_f, Heq_a, Heq_a_is_heq) ==
    kernel_hcongr_th(abst_domain(f_type), abst_domain(new_f_type),
                     Lam(abst_name(f_type), abst_domain(f_type), abst_body(f_type)),
                     Lam(abst_name(new_f_type), abst_domain(new_f_type), abst_body(new_f_type)),
                     f, new_f, a, new_a, Heq_f,
                     IF ~Heq_a_is_heq THEN mk_to_heq_th(abst_domain(f_type), a, new_a, Heq_a)
                     ELSE Heq_a)

\* mk_hcongr_th, lines 237-249, with a_type and new_a_type inferred
hcongr_typed(f_type, new_f_type, f, new_f, a, new_a, Heq_f, Heq_a, Heq_a_is_heq, a_type, new_a_type) ==
    IF ~is_convertible(new_a_type, abst_domain(new_f_type)) THEN none_expr
    ELSE IF ~is_definitionally_equal(abst_domain(f_type), a_type)
            \/ ~is_definitionally_equal(abst_domain(new_f_type), new_a_type)
    THEN IF Heq_a_is_heq
         THEN IF is_definitionally_equal(a_type, new_a_type)
                 /\ is_definitionally_equal(abst_domain(f_type), abst_domain(new_f_type))
              THEN some_expr(hcongr_build(f_type, new_f_type, f, new_f, a, new_a, Heq_f,
                       translate_eq_proof(a_type, a, new_a,
                                          mk_to_eq_th(a_type, a, new_a, Heq_a),
                                          abst_domain(f_type)),
                       FALSE))
              ELSE none_expr
         ELSE some_expr(hcongr_build(f_type, new_f_type, f, new_f, a, new_a, Heq_f,
                  translate_eq_proof(a_type, a, new_a, Heq_a, abst_domain(f_type)), FALSE))
    ELSE some_expr(hcongr_build(f_type, new_f_type, f, new_f, a, new_a, Heq_f, Heq_a,
                                Heq_a_is_heq))

\* mk_hcongr_th: none_expr when the domains cannot be reconciled
mk_hcongr_th(f_type, new_f_type, f, new_f, a, new_a, Heq_f, Heq_a, Heq_a_is_heq) ==
    hcongr_typed(f_type, new_f_type, f, new_f, a, new_a, Heq_f, Heq_a, Heq_a_is_heq,
                 tc_infer_type(a), tc_infer_type(new_a))

\* mk_trans_result(a, b_res, c, H_bc) without the test of m_proofs_enabled:
\* the proof handed in is kept even when proof generation is off.
mk_trans_result4_keeps_proof(a, b_res, c, H_bc) ==
    IF ~is_some(b_res.m_proof) THEN result_pr(c, H_bc)
    ELSE result3(c, some_expr(mk_trans_th(tc_infer_type(a), a, b_res.m_out, c,
                                          the(b_res.m_proof), H_bc)), FALSE)

\* mk_trans_result(a, b_res, c, H_bc)
mk_trans_result4(a, b_res, c, H_bc) ==
    IF m_proofs_enabled
    THEN IF ~is_some(b_res.m_proof)
         THEN result_pr(c, H_bc)
         ELSE LET b == b_res.m_out IN
              IF b_res.m_heq_proof
              THEN LET b_type == tc_infer_type(b) IN
                   result3(c, some_expr(mk_htrans_th(tc_infer_type(a), b_type, b_type, a, b, c,
                                                     the(b_res.m_proof),
                                                     mk_to_heq_th(b_type, b, c, H_bc))), TRUE)
              ELSE result3(c, some_expr(mk_trans_th(tc_infer_type(a), a, b, c,
                                                    the(b_res.m_proof), H_bc)), FALSE)
    ELSE result(c)

\* mk_trans_result(a, b_res, c_res)
mk_trans_result3(a, b_res, c_res) ==
    IF m_proofs_enabled
    THEN IF ~is_some(b_res.m_proof) THEN c_res
         ELSE IF ~is_some(c_res.m_proof)
         THEN result3(c_res.m_out, b_res.m_proof, b_res.m_heq_proof)
         ELSE LET heq_proof == b_res.m_heq_proof \/ c_res.m_heq_proof
                  b == b_res.m_out
                  c == c_res.m_out
              IN  IF heq_proof
                  THEN LET a_type == tc_infer_type(a)
                           b_type == tc_infer_type(b)
                           c_type == tc_infer_type(c)
                           H_ab   == IF ~b_res.m_heq_proof
                                     THEN mk_to_heq_th(a_type, a, b, the(b_res.m_proof))
                                     ELSE the(b_res.m_proof)
                           H_bc   == IF ~c_res.m_heq_proof
                                     THEN mk_to_heq_th(b_type, b, c, the(c_res.m_proof))
                                     ELSE the(c_res.m_proof)
                       IN  result3(c, some_expr(mk_htrans_th(a_type, b_type, c_type, a, b, c,
                                                             H_ab, H_bc)), TRUE)
                  ELSE result3(c, some_expr(mk_trans_th(tc_infer_type(a), a, b, c,
                                                        the(b_res.m_proof),
                                                        the(c_res.m_proof))), FALSE)
    ELSE c_res

\* mk_app_prefix(i, args): the application of args[0] to the next i-1 arguments
mk_app_prefix(i, as) == IF i = 1 THEN as[1] ELSE mk_app(SubSeq(as, 1, i))

\* ensure_homogeneous(lhs, rhs): <<returned value, rhs afterwards>>
ensure_homogeneous(lhs, rhs) ==
    IF rhs.m_heq_proof
    THEN LET lhs_type == tc_infer_type(lhs)
             rhs_type == tc_infer_type(rhs.m_out)
         IN  IF is_definitionally_equal(lhs_type, rhs_type)
             THEN <<TRUE, [rhs EXCEPT !.m_proof =
                              some_expr(mk_to_eq_th(lhs_type, lhs, rhs.m_out, the(rhs.m_proof)))]>>
             ELSE <<FALSE, rhs>>
    ELSE <<TRUE, rhs>>

get_proof(rhs) ==
    IF is_some(rhs.m_proof) THEN the(rhs.m_proof)
    ELSE mk_refl_th(tc_infer_type(rhs.m_out), rhs.m_out)

(***************************************************************************)
(* Frames.  Every frame has fn (the method), pc (where it resumes) and     *)
(* guards; the other fields are the method's locals.                       *)
(***************************************************************************)
SimplifyFrameAt(e, ctx, depth, rule_sets) ==
    [fn |-> "simplify", pc |-> "enter", e |-> e, guards |-> NoGuards,
     \* history: the scoped members as they were when the call was entered
     at_entry |-> [ctx |-> ctx, depth |-> depth, rule_sets |-> rule_sets]]

SimplifyFrame(e) == SimplifyFrameAt(e, m_ctx, m_contextual_depth, m_rule_sets)

MethodFrame(fn, e) == [fn |-> fn, pc |-> "start", e |-> e, guards |-> NoGuards]

DefaultFrame(e) ==
    [fn |-> "simplify_app_default", pc |-> "start", e |-> e, guards |-> NoGuards,
     i |-> 0, new_args |-> <<>>, proofs |-> <<>>, heq_proofs |-> <<>>,
     f_types |-> <<>>, new_f_types |-> <<>>, f_type |-> NullE, new_f_type |-> NullE,
     changed |-> FALSE,
     \* history: the argument positions handed to the driver so far
     visited |-> <<>>]

CongrFrame(e, cg) ==
    [fn |-> "simplify_app_congr", pc |-> "loop", e |-> e, guards |-> NoGuards,
     cg |-> cg, k |-> 1, changed |-> FALSE,
     new_args |-> [i \in 1..num_args(e) |-> IF i = 1 THEN arg(e, 0) ELSE NullE],
     proof_args_buf |-> IF m_proofs_enabled
                        THEN [i \in 1..(cg.num_proof_args + 1) |->
                                 IF i = 1 THEN cg.proof ELSE NullE]
                        ELSE <<>>,
     H |-> NullE, H_proof |-> NullE,
     \* history: the argument positions handed to the driver so far
     visited |-> <<>>]

RewriteFrame(entry, lhs, rhs) ==
    [fn |-> "rewrite", pc |-> entry, lhs |-> lhs, rhs |-> rhs, guards |-> NoGuards,
     si |-> 1, ri |-> 1, rule |-> <<>>, subst |-> <<>>, proof_args |-> <<>>,
     ceq |-> NullE, i |-> 0, new_rhs |-> NullE, new_proof |-> NullE, new_r1 |-> result(NullE),
     \* history: the candidates handed to check_rule, as <<set, rule, accepted>>
     tried |-> <<>>]

(***************************************************************************)
(* simplify_app_default: the code between the calls of the driver.         *)
(***************************************************************************)
\* lines 518-526: the head has been simplified to res_f
default_push_head(fr, res_f) ==
    LET f      == arg(fr.e, 0)
        f_type == tc_infer_type(f)
        new_f  == res_f.m_out
        new_f_type == IF res_f.m_heq_proof THEN tc_infer_type(new_f) ELSE f_type
    IN  [fr EXCEPT !.changed     = (new_f # f),
                   !.new_args    = <<new_f>>,
                   !.f_type      = f_type,
                   !.new_f_type  = IF m_proofs_enabled THEN new_f_type ELSE NullE,
                   !.proofs      = IF m_proofs_enabled THEN <<res_f.m_proof>> ELSE <<>>,
                   !.f_types     = IF m_proofs_enabled THEN <<f_type>> ELSE <<>>,
                   !.new_f_types = IF m_proofs_enabled THEN <<new_f_type>> ELSE <<>>,
                   !.heq_proofs  = IF m_proofs_enabled /\ m_has_heq
                                   THEN <<res_f.m_heq_proof>> ELSE <<>>,
                   !.i           = 1]

\* line 533: is argument i handed to the driver?
default_simplifies_arg(fr) == m_has_heq \/ is_arrow(ensure_pi(fr.f_type))

\* lines 529-557 for argument i, whose result is res_a; simplified tells
\* whether res_a comes from the driver
default_push_arg(fr, res_a, simplified) ==
    LET f_type  == ensure_pi(fr.f_type)
        f_arrow == is_arrow(f_type)
        a       == arg(fr.e, fr.i)
        new_a   == res_a.m_out
        changed_f_type == f_type # fr.new_f_type
        f_type2 == IF f_arrow THEN lower_free_vars(abst_body(f_type), 1, 1)
                   ELSE pi_body_at(f_type, a)
        new_f_type2 ==
            IF f_arrow
            THEN IF changed_f_type THEN lower_free_vars(abst_body(fr.new_f_type), 1, 1)
                 ELSE f_type2
            ELSE IF a = new_a
                 THEN IF changed_f_type THEN pi_body_at(fr.new_f_type, a) ELSE f_type2
                 ELSE pi_body_at(fr.new_f_type, new_a)
    IN  IF m_proofs_enabled
        THEN [fr EXCEPT !.changed     = @ \/ (simplified /\ new_a # a),
                        !.new_args    = Append(@, new_a),
                        !.proofs      = Append(@, res_a.m_proof),
                        !.heq_proofs  = IF m_has_heq THEN Append(@, res_a.m_heq_proof) ELSE @,
                        !.f_type      = f_type2,
                        !.new_f_type  = new_f_type2,
                        !.f_types     = Append(@, f_type2),
                        !.new_f_types = Append(@, new_f_type2),
                        !.i           = @ + 1]
        ELSE [fr EXCEPT !.changed     = @ \/ (simplified /\ new_a # a),
                        !.new_args    = Append(@, new_a),
                        !.f_type      = f_type,
                        !.i           = @ + 1]

\* the step after mk_hcongr_th returned hc: ok is FALSE when it failed
hcongr_step(hc, st) ==
    IF is_some(hc) THEN [ok |-> TRUE, pr |-> the(hc), heq |-> TRUE]
    ELSE [ok |-> FALSE, pr |-> st.pr, heq |-> st.heq]

\* line 599: the type given to to_heq when the homogeneous proof of the
\* prefix of length i is lifted (f_types[k] of the code is fr.f_types[k + 1])
lift_type(fr, i) == fr.f_types[i + 1]

\* lines 593-622: extend the proof st.pr of the prefix of length i by
\* argument i, given f = mk_app_prefix(i, e), new_f = mk_app_prefix(i, new_args),
\* ft = f_types[i-1] and nft = new_f_types[i-1]
default_proof_step_at(fr, i, st, f, new_f, ft, nft) ==
    IF is_some(fr.proofs[i + 1])
    THEN IF m_has_heq /\ fr.heq_proofs[i + 1]
         THEN hcongr_step(mk_hcongr_th(ft, nft, f, new_f, arg(fr.e, i), fr.new_args[i + 1],
                              IF ~st.heq THEN mk_to_heq_th(lift_type(fr, i), f, new_f, st.pr)
                              ELSE st.pr,
                              the(fr.proofs[i + 1]), TRUE), st)
         ELSE IF st.heq
         THEN hcongr_step(mk_hcongr_th(ft, nft, f, new_f, arg(fr.e, i), fr.new_args[i + 1],
                              st.pr, the(fr.proofs[i + 1]), fr.heq_proofs[i + 1]), st)
         ELSE [ok |-> TRUE, heq |-> FALSE,
               pr |-> mk_congr_th(ft, f, new_f, arg(fr.e, i), fr.new_args[i + 1], st.pr,
                                  the(fr.proofs[i + 1]))]
    ELSE IF st.heq
         THEN hcongr_step(mk_hcongr_th(ft, nft, f, new_f, arg(fr.e, i), arg(fr.e, i), st.pr,
                              mk_refl_th(tc_infer_type(arg(fr.e, i)), arg(fr.e, i)), FALSE),
                          st)
         ELSE [ok |-> TRUE, heq |-> FALSE,
               pr |-> mk_congr1_th(ft, f, new_f, arg(fr.e, i), st.pr)]

default_proof_step(fr, i, st) ==
    default_proof_step_at(fr, i, st, mk_app_prefix(i, args(fr.e)),
                          mk_app_prefix(i, fr.new_args),
                          fr.f_types[i], fr.new_f_types[i])

\* lines 592-623, for the positions i, ..., n - 1
RECURSIVE default_proof_upto(_, _, _, _)
default_proof_upto(fr, i, n, st) ==
    IF i >= n \/ ~st.ok THEN st
    ELSE default_proof_upto(fr, i + 1, n, default_proof_step(fr, i, st))

\* lines 592-623
default_proof_loop(fr, i, st) == default_proof_upto(fr, i, num_args(fr.e), st)

\* index of the first argument with a proof, or num (lines 566-570)
RECURSIVE default_first_proof(_, _)
default_first_proof(fr, i) ==
    IF i < num_args(fr.e) /\ ~is_some(fr.proofs[i + 1])
    THEN default_first_proof(fr, i + 1) ELSE i

\* lines 575-590: the proof of the prefix that ends at the first argument i
\* with a proof
default_seed(fr, i) ==
    IF i = 0
    THEN [ok |-> TRUE, pr |-> the(fr.proofs[1]), heq |-> m_has_heq /\ fr.heq_proofs[1]]
    ELSE IF m_has_heq /\ (fr.heq_proofs[i + 1] \/ ~is_arrow(fr.f_types[i]))
    THEN hcongr_step(mk_hcongr_th(fr.f_types[i], fr.f_types[i],
                                  mk_app_prefix(i, fr.new_args), mk_app_prefix(i, fr.new_args),
                                  arg(fr.e, i), fr.new_args[i + 1],
                                  mk_hrefl_th(fr.f_types[i], mk_app_prefix(i, fr.new_args)),
                                  the(fr.proofs[i + 1]), fr.heq_proofs[i + 1]),
                     [ok |-> FALSE, pr |-> NullE, heq |-> FALSE])
    ELSE [ok |-> TRUE, heq |-> FALSE,
          pr |-> mk_congr2_th(fr.f_types[i], arg(fr.e, i), fr.new_args[i + 1],
                              mk_app_prefix(i, fr.new_args), the(fr.proofs[i + 1]))]

\* The result of simplify_app_default when a failure of mk_hcongr_th only
\* drops the proof: the simplified arguments are kept.
default_proved_keeps_args(fr, fin) ==
    IF fin.ok THEN result3(mk_app(fr.new_args), some_expr(fin.pr), fin.heq)
    ELSE result(mk_app(fr.new_args))

\* line 624, or line 584/602/608/617 when mk_hcongr_th failed
default_proved(fr, fin) ==
    IF fin.ok THEN result3(mk_app(fr.new_args), some_expr(fin.pr), fin.heq)
    ELSE result(fr.e)

\* lines 571-624, i being the first argument with a proof
default_finish_at(fr, i) ==
    IF i = num_args(fr.e) THEN result(mk_app(fr.new_args))
    ELSE default_proved(fr, default_proof_loop(fr, i + 1, default_seed(fr, i)))

\* lines 583, 601, 607, 616: where mk_hcongr_th returns none while the proof
\* of fr is built ("seed": line 583, "later": in the loop), or "no"
hcongr_failure(fr) ==
    LET first == default_first_proof(fr, 0) IN
    IF ~fr.changed \/ ~m_proofs_enabled \/ first = num_args(fr.e) THEN "no"
    ELSE IF ~default_seed(fr, first).ok THEN "seed"
    ELSE IF ~default_proof_loop(fr, first + 1, default_seed(fr, first)).ok THEN "later"
    ELSE "no"

\* lines 560-625: the result handed to rewrite_app
default_finish(fr) ==
    IF ~fr.changed THEN result(fr.e)
    ELSE IF ~m_proofs_enabled THEN result(mk_app(fr.new_args))
    ELSE default_finish_at(fr, default_first_proof(fr, 0))

(***************************************************************************)
(* The rewrite engine: the code of rewrite_app, rewrite_lambda and of the  *)
(* rule check between the calls of the driver.                             *)
(***************************************************************************)
evaluate_app(e) ==
    IF ~m_eval THEN FALSE
    ELSE IF \A i \in 2..num_args(e) : is_value(args(e)[i]) THEN TRUE
    ELSE LET num == num_args(e) IN
         (is_eq(e) \/ is_neq(e) \/ is_heq(e))
         /\ is_value(arg(e, num - 2)) /\ is_value(arg(e, num - 1))

\* rewrite_app: the result handed on to rewrite
rewrite_app_rhs(rhs) ==
    LET ev == evaluate_app(rhs.m_out)
        nv == normalize(rhs.m_out)
        f  == arg(rhs.m_out, 0)
    IN  IF ev /\ is_value(nv) THEN result3(nv, rhs.m_proof, rhs.m_heq_proof)
        ELSE IF m_beta /\ is_lambda(f)
        THEN result3(head_beta_reduce(rhs.m_out), rhs.m_proof, rhs.m_heq_proof)
        ELSE rhs

is_eta_target(e) ==
    IF is_lambda(e)
    THEN LET b == abst_body(e) IN
         is_app(b) /\ arg(b, num_args(b) - 1) = Var(0)
         /\ \A i \in 1..(num_args(b) - 1) : ~has_free_var(args(b)[i], 0)
    ELSE FALSE

\* rewrite_lambda: the result handed on to rewrite
rewrite_lambda_rhs(lhs, rhs) ==
    IF m_eta /\ is_eta_target(rhs.m_out)
    THEN LET b  == abst_body(rhs.m_out)
             r0 == IF num_args(b) > 2 THEN mk_app(SubSeq(args(b), 1, num_args(b) - 1))
                   ELSE arg(b, 0)
             new_rhs      == lower_free_vars(r0, 1, 1)
             new_rhs_type == ensure_pi(tc_infer_type(new_rhs))
         IN  IF is_pi(new_rhs_type)
                /\ is_definitionally_equal(abst_domain(new_rhs_type), abst_domain(rhs.m_out))
             THEN IF m_proofs_enabled
                  THEN mk_trans_result4(lhs, rhs, new_rhs,
                           mk_eta_th(abst_domain(rhs.m_out),
                                     Lam(abst_name(rhs.m_out), abst_domain(rhs.m_out),
                                         abst_body(new_rhs_type)),
                                     new_rhs))
                  ELSE result(new_rhs)
             ELSE rhs
    ELSE rhs

\* The traversal of the rule sets stopping one set early: the last rule set
\* is never consulted.
RECURSIVE next_candidate_skips_last(_, _, _)
next_candidate_skips_last(target, si, ri) ==
    IF si >= Len(m_rule_sets) THEN <<Len(m_rule_sets) + 1, 1>>
    ELSE IF ri > Len(candidates(m_rule_sets[si], target))
    THEN next_candidate_skips_last(target, si + 1, 1)
    ELSE <<si, ri>>

\* The next candidate at or after (si, ri): <<si, ri>>, with si past the
\* last rule set when there is none.
RECURSIVE next_candidate(_, _, _)
next_candidate(target, si, ri) ==
    IF si > Len(m_rule_sets) THEN <<si, 1>>
    ELSE IF ri > Len(candidates(m_rule_sets[si], target)) THEN next_candidate(target, si + 1, 1)
    ELSE <<si, ri>>

\* found_all_args
found_all_args(subst) == \A i \in 1..Len(subst) : is_some(subst[i])

\* check_rule, conditional path: the loop over the arguments, up to the
\* first argument that is not determined (lines 745-750)
RECURSIVE ceq_walk(_)
ceq_walk(fr) ==
    IF fr.i < fr.rule.num_args /\ is_some(fr.subst[fr.i + 1])
    THEN ceq_walk([fr EXCEPT !.ceq = instantiate(abst_body(@), the(fr.subst[fr.i + 1])),
                             !.proof_args = IF m_proofs_enabled
                                            THEN Append(@, the(fr.subst[fr.i + 1])) ELSE @,
                             !.i = @ + 1])
    ELSE fr

\* A rejected candidate ends the search: no candidate after it is tried.
rule_rejected_ends_search(fr) ==
    [fr EXCEPT !.pc = "find_match", !.si = Len(m_rule_sets) + 1, !.ri = 1,
               !.tried = Append(@, <<fr.si, fr.ri, FALSE>>)]

\* A rejected candidate: go on with the next one.
rule_rejected(fr) ==
    [fr EXCEPT !.pc = "find_match", !.ri = @ + 1,
               !.tried = Append(@, <<fr.si, fr.ri, FALSE>>)]

\* The rule is accepted, but new_rhs and new_proof are not the ones check_rule
\* has just computed: they are what the candidates before it left behind.
rule_accepted_stale(fr) ==
    [fr EXCEPT !.pc = "accepted", !.tried = Append(@, <<fr.si, fr.ri, TRUE>>),
               !.new_rhs = Top.new_rhs, !.new_proof = Top.new_proof]

rule_accepted(fr) ==
    [fr EXCEPT !.pc = "accepted", !.tried = Append(@, <<fr.si, fr.ri, TRUE>>)]

\* The end of the conditional path without the test of lines 786-787: the
\* permutation guard is applied on the easy path only.
cond_rule_finish_unguarded(fr) ==
    rule_accepted([fr EXCEPT !.new_proof = IF Len(fr.proof_args) >= 2
                                           THEN mk_app(fr.proof_args) ELSE NullE,
                             !.new_rhs   = arg(fr.ceq, num_args(fr.ceq) - 1)])

\* lines 784-788: all arguments of the conditional rule are there
cond_rule_finish(fr) ==
    LET new_rhs == arg(fr.ceq, num_args(fr.ceq) - 1)
        fr1 == [fr EXCEPT !.new_proof = IF Len(fr.proof_args) >= 2
                                        THEN mk_app(fr.proof_args) ELSE NullE,
                          !.new_rhs   = new_rhs]
    IN  IF fr.rule.is_permutation /\ ~is_lt(new_rhs, fr.rhs.m_out)
        THEN rule_rejected(fr1) ELSE rule_accepted(fr1)

\* lines 715-735: the candidate (si, ri) up to the end of the easy case, or
\* up to the first premise of the conditional case
check_rule_start(fr) ==
    LET target == fr.rhs.m_out
        rule   == candidates(m_rule_sets[fr.si], target)[fr.ri]
        num    == rule.num_args
        m      == hop_match(rule.lhs, target, num)
        fr0    == [fr EXCEPT !.rule = rule, !.subst = m.subst]
    IN  IF ~m.ok THEN rule_rejected([fr0 EXCEPT !.subst = [i \in 1..num |-> none_expr]])
        ELSE IF found_all_args(m.subst)
        THEN LET vals    == [i \in 1..num |-> the(m.subst[i])]
                 new_rhs == instantiate_n(rule.rhs, num, vals)
                 fr1     == [fr0 EXCEPT !.new_rhs = new_rhs,
                                        !.proof_args = <<NullE>> \o vals]
             IN  IF rule.is_permutation /\ ~is_lt(new_rhs, target)
                 THEN rule_rejected(fr1)
                 ELSE IF m_proofs_enabled
                 THEN rule_accepted([fr1 EXCEPT
                          !.proof_args = <<rule.proof>> \o vals,
                          !.new_proof  = IF num > 0 THEN mk_app(<<rule.proof>> \o vals)
                                         ELSE rule.proof])
                 ELSE rule_accepted(fr1)
        ELSE ceq_walk([fr0 EXCEPT !.pc = "premise",
                                  !.ceq = rule.ceq, !.i = 0,
                                  !.proof_args = IF m_proofs_enabled THEN <<rule.proof>>
                                                 ELSE <<>>])

\* lines 755-777: the premise has been simplified to d_res
check_rule_premise(fr, d_res) ==
    LET d == abst_domain(fr.ceq) IN
    IF d_res.m_out = True
    THEN IF m_proofs_enabled
         THEN LET d_proof == IF ~is_some(d_res.m_proof) THEN mk_trivial
                             ELSE mk_eqt_elim_th(d, the(d_res.m_proof))
              IN  ceq_walk([fr EXCEPT !.pc = "premise",
                                      !.ceq = instantiate(abst_body(@), d_proof),
                                      !.proof_args = Append(@, d_proof),
                                      !.i = @ + 1])
         ELSE IF is_arrow(fr.ceq)
         THEN ceq_walk([fr EXCEPT !.pc = "premise",
                                  !.ceq = lower_free_vars(abst_body(@), 1, 1),
                                  !.i = @ + 1])
         ELSE rule_rejected(fr)
    ELSE rule_rejected(fr)

(***************************************************************************)
(* simplify_app_congr: the code between the calls of the driver.           *)
(***************************************************************************)
\* name(g_unique, m_contextual_depth) and name(g_C, m_contextual_depth)
UniqueNames == <<"unique.1", "unique.2", "unique.3", "unique.4">>
CNames      == <<"C.1", "C.2", "C.3", "C.4">>
unique_name(d) == UniqueNames[d]
C_name(d)      == CNames[d]

congr_info(fr) == fr.cg.arg_info[fr.k]

\* proof_args[p] = v, where proof_args = proof_args_buf.data() + 1
set_proof_arg(buf, p, v) == [buf EXCEPT ![p + 2] = v]

\* lines 485-486 and the step to the next argument
congr_next(fr) ==
    LET pos == congr_info(fr).arg_pos IN
    [fr EXCEPT !.changed = @ \/ (fr.new_args[pos + 1] # arg(fr.e, pos)),
               !.k = @ + 1, !.pc = "loop", !.guards = NoGuards]

\* lines 488-491: the argument is not simplified
congr_keep_arg(fr) ==
    LET info == congr_info(fr)
        pos  == info.arg_pos
    IN  [fr EXCEPT !.new_args[pos + 1] = arg(fr.e, pos),
                   !.proof_args_buf = IF m_proofs_enabled
                                      THEN set_proof_arg(@, info.pos_at_proof, arg(fr.e, pos))
                                      ELSE @,
                   !.k = @ + 1]

\* The hypothesis is always taken from the argument as it was in e.
congr_hypothesis_old(fr) ==
    LET info == congr_info(fr)
        H0   == arg(fr.e, info.ctx_arg_pos)
    IN  IF info.is_pos_dep THEN H0 ELSE mk_not(H0)

\* lines 458-461: the hypothesis the argument is simplified under
congr_hypothesis(fr) ==
    LET info    == congr_info(fr)
        dep_pos == info.ctx_arg_pos
        H0      == IF info.use_new_val THEN fr.new_args[dep_pos + 1] ELSE arg(fr.e, dep_pos)
    IN  IF info.is_pos_dep THEN H0 ELSE mk_not(H0)

\* lines 453-455 / 478-482: the proof arguments of a simplified argument
congr_push_proof_args(fr, res_a, pr) ==
    LET info == congr_info(fr)
        pos  == info.arg_pos
        b1   == set_proof_arg(fr.proof_args_buf, info.pos_at_proof, arg(fr.e, pos))
        b2   == set_proof_arg(b1, info.new_pos_at_proof, res_a.m_out)
    IN  [fr EXCEPT !.new_args[pos + 1] = res_a.m_out,
                   !.proof_args_buf = set_proof_arg(b2, info.proof_pos_at_proof, pr)]

\* lines 495-501: the result handed to rewrite_app
congr_finish(fr) ==
    IF ~fr.changed THEN result(fr.e)
    ELSE IF ~m_proofs_enabled THEN result(mk_app(fr.new_args))
    ELSE result_pr(mk_app(fr.new_args), mk_app(fr.proof_args_buf))

\* simplify_app, lines 359-377: the result of a cast whose argument has been
\* simplified to res_a
simplify_cast_result(e, res_a) ==
    LET A == arg(e, 1)
        B == arg(e, 2)
        a == arg(e, 4)
        c == res_a.m_out
    IN  IF is_some(res_a.m_proof)
        THEN LET Hac == the(res_a.m_proof)
                 Hec == IF ~res_a.m_heq_proof
                        THEN mk_htrans_th(B, A, A, e, a, c,
                                          update_app(e, 0, mk_cast_heq_fn),
                                          mk_to_heq_th(B, a, c, Hac))
                        ELSE mk_htrans_th(B, A, tc_infer_type(c), e, a, c,
                                          update_app(e, 0, mk_cast_heq_fn), Hac)
             IN  result3(c, some_expr(Hec), TRUE)
        ELSE result3(c, some_expr(update_app(e, 0, mk_cast_heq_fn)), TRUE)

\* simplify_app, lines 382-388: the congruence theorem for the head of e
RECURSIVE find_congr(_, _)
find_congr(e, k) ==
    IF k > Len(m_congr_thms) THEN 0
    ELSE IF m_congr_thms[k].fun = arg(e, 0) THEN k
    ELSE find_congr(e, k + 1)

\* simplify_lambda / simplify_pi, lines 907-917 and 930-941: the result
\* handed to rewrite_lambda / rewrite once the body has been simplified
lambda_result(e, res_body) ==
    LET new_body == res_body.m_out
        out      == Lam(abst_name(e), abst_domain(e), new_body)
    IN  IF new_body = abst_body(e) THEN result(e)
        ELSE IF ~m_proofs_enabled \/ ~is_some(res_body.m_proof) THEN result(out)
        ELSE LET body_type == tc_infer_type(abst_body(e)) IN
             result_pr(out, mk_funext_th(abst_domain(e),
                                         Lam(abst_name(e), abst_domain(e), body_type), e, out,
                                         Lam(abst_name(e), abst_domain(e), the(res_body.m_proof))))

pi_result(e, res_body) ==
    LET new_body == res_body.m_out
        out      == PiE(abst_name(e), abst_domain(e), new_body)
        lam(b)   == Lam(abst_name(e), abst_domain(e), b)
    IN  IF new_body = abst_body(e) THEN result(e)
        ELSE IF ~m_proofs_enabled \/ ~is_some(res_body.m_proof) THEN result(out)
        ELSE result_pr(out, mk_allext_th(abst_domain(e), lam(abst_body(e)),
                                         lam(abst_body(out)), lam(the(res_body.m_proof))))

\* The cache is the set of its entries.  An entry carries, as history, the
\* context and the rule sets it was computed under.
cache_find(e) == {en \in m_cache : en.key = e}
cache_get(e)  == CHOOSE en \in cache_find(e) : TRUE

\* save: the cache after the insertion (an existing entry stays)
save_cache(e, r) ==
    IF m_memoize /\ cache_find(e) = {}
    THEN m_cache \cup {[key |-> e, r |-> r, ctx |-> m_ctx, rule_sets |-> m_rule_sets]}
    ELSE m_cache

\* collect_congr_thms: the first theorem per head, over the rule sets in order
RECURSIVE collect_from(_, _, _)
collect_from(thms, k, acc) ==
    IF k > Len(thms) THEN acc
    ELSE collect_from(thms, k + 1,
             IF \A j \in 1..Len(acc) : acc[j].fun # thms[k].fun
             THEN Append(acc, thms[k]) ELSE acc)

RECURSIVE collect_congr_thms(_, _, _, _)
collect_congr_thms(contextual, rule_sets, k, acc) ==
    IF ~contextual \/ k > Len(rule_sets) THEN acc
    ELSE collect_congr_thms(contextual, rule_sets, k + 1,
                            collect_from(rule_sets[k].congr, 1, acc))

\* the constructor's rule sets
EmptyRuleSet == RuleSet(<<>>, <<>>)
ctor_rule_sets(contextual, rs) == (IF contextual THEN <<EmptyRuleSet>> ELSE <<>>) \o rs

(***************************************************************************)
(* Steps of the machine.                                                   *)
(***************************************************************************)
MaxStack == 40

Base == SubSeq(stack, 1, Len(stack) - 1)

Running(fn, pc) == status = "running" /\ Top.fn = fn /\ Top.pc = pc

SetStack(s) == Len(s) <= MaxStack /\ stack' = s

\* the destructors of the guards g
Restore(g) ==
    /\ m_ctx' = IF g.ctx # <<>> THEN g.ctx[1] ELSE m_ctx
    /\ m_cache' = IF g.cache # <<>> THEN g.cache[1] ELSE m_cache
    /\ m_rule_sets' = IF g.rs0 # <<>> THEN [m_rule_sets EXCEPT ![1] = g.rs0[1]]
                      ELSE m_rule_sets
    /\ m_contextual_depth' = IF g.depth # <<>> THEN g.depth[1] ELSE m_contextual_depth

\* a step inside the running call that leaves the scoped members alone
Step(s) ==
    /\ SetStack(s)
    /\ UNCHANGED <<input, opts, m_congr_thms, calls, ret, status, exc, m_num_steps,
                   m_ctx, m_rule_sets, m_cache, m_contextual_depth>>

\* the top frame returns r
Return(r) ==
    /\ stack' = Base
    /\ ret' = r
    /\ Restore(Top.guards)
    /\ UNCHANGED <<input, opts, m_congr_thms, calls, status, exc, m_num_steps>>

\* rewrite_app(lhs, rhs) and rewrite_lambda(lhs, rhs) up to the rule loop
RewriteApp(lhs, rhs)    == RewriteFrame("find_match", lhs, rewrite_app_rhs(rhs))
RewriteLambda(lhs, rhs) == RewriteFrame("find_match", lhs, rewrite_lambda_rhs(lhs, rhs))
Rewrite(lhs, rhs)       == RewriteFrame("find_match", lhs, rhs)

\* operator(): set_context, m_num_steps = 0, simplify(e)
operator_call ==
    /\ status = "idle"
    /\ stack' = << [fn |-> "operator()", pc |-> "ret", e |-> input.e,
                    guards |-> [NoGuards EXCEPT !.ctx = <<m_ctx>>, !.cache = <<m_cache>>],
                    \* history: the members as they were before the call
                    at_entry |-> [ctx |-> m_ctx, cache |-> m_cache,
                                  depth |-> m_contextual_depth, rule_sets |-> m_rule_sets],
                    \* history: has a rule with a premise been accepted in this call?
                    cond_fired |-> FALSE,
                    \* history: where mk_hcongr_th has failed last in this call
                    hcongr_failed |-> "no"],
                   SimplifyFrameAt(input.e, input.ctx, m_contextual_depth, m_rule_sets) >>
    /\ m_ctx' = input.ctx
    /\ m_cache' = {}
    /\ m_num_steps' = UInt(0)
    /\ status' = "running"
    /\ UNCHANGED <<input, opts, m_congr_thms, calls, ret, exc, m_rule_sets,
                   m_contextual_depth>>

CallRecord(outcome, r, proof) ==
    [input |-> input, opts |-> opts, outcome |-> outcome, out |-> r.m_out, proof |-> proof,
     has_proof |-> is_some(r.m_proof), heq |-> r.m_heq_proof, steps |-> m_num_steps,
     cond_fired |-> stack[1].cond_fired, hcongr_failed |-> stack[1].hcongr_failed]

\* operator(): return mk_pair(r.m_out, get_proof(r))
operator_return ==
    /\ Running("operator()", "ret")
    /\ status' = "returned"
    /\ calls' = Append(calls, CallRecord("returned", ret, get_proof(ret)))
    /\ stack' = Base
    /\ Restore(Top.guards)
    /\ UNCHANGED <<input, opts, m_congr_thms, ret, exc, m_num_steps>>

\* An exception leaves the top frame without running the destructors of its
\* guards: what a scope changed stays changed.
unwind_keeps_state ==
    /\ status = "unwinding"
    /\ stack' = Base
    /\ IF Len(stack) = 1
       THEN /\ status' = exc
            /\ calls' = Append(calls, [input |-> input, opts |-> opts, outcome |-> exc,
                                       out |-> NullE, proof |-> NullE, has_proof |-> FALSE,
                                       heq |-> FALSE, steps |-> m_num_steps,
                                       cond_fired |-> stack[1].cond_fired,
                                       hcongr_failed |-> stack[1].hcongr_failed])
       ELSE UNCHANGED <<status, calls>>
    /\ UNCHANGED <<input, opts, m_congr_thms, ret, exc, m_num_steps,
                   m_ctx, m_rule_sets, m_cache, m_contextual_depth>>

\* an exception leaves the top frame
unwind ==
    /\ status = "unwinding"
    /\ stack' = Base
    /\ Restore(Top.guards)
    /\ IF Len(stack) = 1
       THEN /\ status' = exc
            /\ calls' = Append(calls, CallRecord(exc, result(NullE), NullE))
       ELSE UNCHANGED <<status, calls>>
    /\ UNCHANGED <<input, opts, m_congr_thms, ret, exc, m_num_steps>>

Throw(what) ==
    /\ status' = "unwinding"
    /\ exc' = what
    /\ UNCHANGED <<input, opts, m_congr_thms, calls, ret, stack,
                   m_ctx, m_rule_sets, m_cache, m_contextual_depth>>

\* simplify, line 959: check_system raises the interruption
simplify_interrupted ==
    /\ Running("simplify", "enter")
    /\ Throw("interrupted")
    /\ UNCHANGED m_num_steps

\* simplify, lines 960-962
simplify_exhausted ==
    /\ Running("simplify", "enter")
    /\ m_num_steps' = uint_inc(m_num_steps)
    /\ uint_gt(m_num_steps', m_max_steps)
    /\ Throw("exhausted")

\* the driver entry goes past the step check and the cache
Enter(k) ==
    /\ Running("simplify", "enter")
    /\ m_num_steps' = uint_inc(m_num_steps)
    /\ ~uint_gt(m_num_steps', m_max_steps)
    /\ ~(m_memoize /\ cache_find(Top.e) # {})
    /\ kind(Top.e) \in k

\* a step of the driver entry that leaves the scoped members alone
EnterStep(s) ==
    /\ SetStack(s)
    /\ UNCHANGED <<input, opts, m_congr_thms, calls, ret, status, exc,
                   m_ctx, m_rule_sets, m_cache, m_contextual_depth>>

\* save(e, r) and the return of the driver
SaveReturn(e, r) ==
    /\ stack' = Base
    /\ ret' = r
    /\ m_cache' = save_cache(e, r)
    /\ UNCHANGED <<input, opts, m_congr_thms, calls, status, exc,
                   m_ctx, m_rule_sets, m_contextual_depth>>

Saving == [Top EXCEPT !.pc = "save"]

\* The cache consulted before the step is counted: a hit consumes no step.
simplify_cached_uncounted ==
    /\ Running("simplify", "enter")
    /\ m_memoize /\ cache_find(Top.e) # {}
    /\ stack' = Base
    /\ ret' = cache_get(Top.e).r
    /\ UNCHANGED <<input, opts, m_congr_thms, calls, status, exc, m_num_steps,
                   m_ctx, m_rule_sets, m_cache, m_contextual_depth>>

\* simplify, lines 963-968: the cache has an entry for e
simplify_cached ==
    /\ Running("simplify", "enter")
    /\ m_num_steps' = uint_inc(m_num_steps)
    /\ ~uint_gt(m_num_steps', m_max_steps)
    /\ m_memoize /\ cache_find(Top.e) # {}
    /\ stack' = Base
    /\ ret' = cache_get(Top.e).r
    /\ UNCHANGED <<input, opts, m_congr_thms, calls, status, exc,
                   m_ctx, m_rule_sets, m_cache, m_contextual_depth>>

\* simplify on Var, Type, MetaVar, Value (simplify_var included)
simplify_leaf ==
    /\ Enter({"var", "type", "mvar", "value"})
    /\ SaveReturn(Top.e, result(Top.e))

\* the driver's save once the method it dispatched to has returned
simplify_save ==
    /\ Running("simplify", "save")
    /\ SaveReturn(Top.e, ret)
    /\ UNCHANGED m_num_steps

\* simplify on Let
simplify_let ==
    /\ Enter({"let"})
    /\ EnterStep(Append(SetTop(Saving),
                        SimplifyFrame(instantiate(let_body(Top.e), let_value(Top.e)))))

\* simplify on Constant: simplify_constant
simplify_constant ==
    /\ Enter({"const"})
    /\ LET e == Top.e
           n == const_name(e)
       IN  IF m_unfold /\ should_unfold(n)
           THEN IF m_single_pass THEN SaveReturn(e, result(get_value(n)))
                ELSE EnterStep(Append(SetTop(Saving), SimplifyFrame(get_value(n))))
           ELSE IF m_eval /\ is_builtin(n) THEN SaveReturn(e, result(get_value(n)))
           ELSE EnterStep(Append(SetTop(Saving), Rewrite(e, result(e))))

\* simplify_app_default, lines 511-513: up to the call simplify(f)
DefaultStart(base, e) ==
    base \o << [DefaultFrame(e) EXCEPT !.pc = "ret_f", !.visited = <<0>>],
               SimplifyFrame(arg(e, 0)) >>

\* simplify on App: simplify_app
simplify_app ==
    /\ Enter({"app"})
    /\ LET e == Top.e
           k == find_congr(e, 1)
       IN  IF m_has_cast /\ is_cast(e)
           THEN IF m_proofs_enabled
                THEN EnterStep(SetTop(Saving) \o
                               << [MethodFrame("simplify_app", e) EXCEPT !.pc = "cast_ret"],
                                  SimplifyFrame(arg(e, 4)) >>)
                ELSE EnterStep(Append(SetTop(Saving), SimplifyFrame(arg(e, 4))))
           ELSE IF m_contextual /\ k # 0
           THEN EnterStep(Append(SetTop(Saving), CongrFrame(e, m_congr_thms[k])))
           ELSE EnterStep(DefaultStart(SetTop(Saving), e))

\* simplify_app, lines 358-377: the argument of the cast has been simplified
simplify_cast_ret ==
    /\ Running("simplify_app", "cast_ret")
    /\ Return(simplify_cast_result(Top.e, ret))

\* set_context for the binder of e, then simplify(abst_body(e))
EnterBinder(fn) ==
    LET e       == Top.e
        new_ctx == extend(m_ctx, abst_name(e), abst_domain(e))
        fr      == [fn |-> fn, pc |-> "body_ret", e |-> e,
                    guards |-> [NoGuards EXCEPT !.ctx = <<m_ctx>>, !.cache = <<m_cache>>]]
    IN  /\ SetStack(SetTop(Saving) \o
                    << fr, SimplifyFrameAt(abst_body(e), new_ctx, m_contextual_depth,
                                           m_rule_sets) >>)
        /\ m_ctx' = new_ctx
        /\ m_cache' = {}
        /\ UNCHANGED <<input, opts, m_congr_thms, calls, ret, status, exc,
                       m_rule_sets, m_contextual_depth>>

\* simplify on Lambda: simplify_lambda up to the call simplify(abst_body(e))
simplify_lambda ==
    /\ Enter({"lam"})
    /\ IF m_has_heq THEN SaveReturn(Top.e, result(Top.e))
       ELSE EnterBinder("simplify_lambda")

\* simplify_lambda, lines 907-917
simplify_lambda_ret ==
    /\ Running("simplify_lambda", "body_ret")
    /\ Step(Append(SetTop([Top EXCEPT !.pc = "tail"]),
                   RewriteLambda(Top.e, lambda_result(Top.e, ret))))

\* simplify on Pi: simplify_pi up to the call simplify(abst_body(e))
simplify_pi ==
    /\ Enter({"pi"})
    /\ IF m_has_heq \/ ~is_proposition(Top.e, m_ctx) THEN SaveReturn(Top.e, result(Top.e))
       ELSE EnterBinder("simplify_pi")

\* simplify_pi, lines 930-941
simplify_pi_ret ==
    /\ Running("simplify_pi", "body_ret")
    /\ Step(Append(SetTop([Top EXCEPT !.pc = "tail"]),
                   Rewrite(Top.e, pi_result(Top.e, ret))))

\* a method returns what the call in its return statement returned; the
\* guards of its scope are destroyed
tail_return ==
    /\ status = "running" /\ Top.pc = "tail"
    /\ Return(ret)

\* simplify_app_default, lines 514-526
default_ret_f ==
    /\ Running("simplify_app_default", "ret_f")
    /\ Step(SetTop([default_push_head(Top, ret) EXCEPT !.pc = "loop"]))

\* history: the call notes a failure of mk_hcongr_th
noted_failure(fr, s) ==
    IF hcongr_failure(fr) = "no" THEN s
    ELSE [s EXCEPT ![1].hcongr_failed = hcongr_failure(fr)]

\* simplify_app_default, lines 528-537 and 560-625
default_loop ==
    /\ Running("simplify_app_default", "loop")
    /\ LET fr == Top
           a  == arg(fr.e, fr.i)
       IN  IF fr.i < num_args(fr.e)
           THEN IF default_simplifies_arg(fr)
                THEN Step(Append(SetTop([fr EXCEPT !.pc = "ret_a",
                                                   !.visited = Append(@, fr.i)]),
                                 SimplifyFrame(a)))
                ELSE Step(SetTop(default_push_arg(fr, result(a), FALSE)))
           ELSE Step(noted_failure(fr, Append(Base, RewriteApp(fr.e, default_finish(fr)))))

\* simplify_app_default, lines 535-557
default_ret_a ==
    /\ Running("simplify_app_default", "ret_a")
    /\ Step(SetTop([default_push_arg(Top, ret, TRUE) EXCEPT !.pc = "loop"]))

\* simplify_app_congr, lines 441-501 up to the next call of the driver
congr_loop ==
    /\ Running("simplify_app_congr", "loop")
    /\ LET fr == Top IN
       IF fr.k > Len(fr.cg.arg_info)
       THEN Step(Append(Base, RewriteApp(fr.e, congr_finish(fr))))
       ELSE
       LET info == congr_info(fr)
           a    == arg(fr.e, info.arg_pos)
       IN  IF ~info.should_simplify THEN Step(SetTop(congr_keep_arg(fr)))
           ELSE IF ~info.has_context
           THEN Step(Append(SetTop([fr EXCEPT !.pc = "ret_noctx",
                                              !.visited = Append(@, info.arg_pos)]),
                            SimplifyFrame(a)))
           ELSE
           LET H       == congr_hypothesis(fr)
               depth   == IF m_proofs_enabled THEN m_contextual_depth + 1
                          ELSE m_contextual_depth
               H_proof == IF m_proofs_enabled THEN Const(unique_name(depth)) ELSE NullE
               rs      == [m_rule_sets EXCEPT ![1] = insert(@, H, H_proof)]
               g       == IF m_proofs_enabled
                          THEN [NoGuards EXCEPT !.depth = <<m_contextual_depth>>,
                                                !.rs0 = <<m_rule_sets[1]>>,
                                                !.cache = <<m_cache>>]
                          ELSE [NoGuards EXCEPT !.rs0 = <<m_rule_sets[1]>>]
           IN  /\ SetStack(Append(SetTop([fr EXCEPT !.pc = "ret_ctx", !.guards = g,
                                                    !.H = H, !.H_proof = H_proof,
                                                    !.visited = Append(@, info.arg_pos)]),
                                  SimplifyFrameAt(a, m_ctx, depth, rs)))
               /\ m_rule_sets' = rs
               /\ m_contextual_depth' = depth
               /\ m_cache' = IF m_proofs_enabled THEN {} ELSE m_cache
               /\ UNCHANGED <<input, opts, m_congr_thms, calls, ret, status, exc,
                              m_num_steps, m_ctx>>

\* lines 432-433 and 495-500: a slot of new_args the loop has not assigned
\* holds the null expression new_args.resize left there
unassigned(fr) == {i \in 1..Len(fr.new_args) : fr.new_args[i] = NullE}

\* simplify_app_congr, lines 497-500: mk_app of a buffer that holds a null
\* expression reads through the null pointer; the build may stop there
congr_bad_app ==
    /\ Running("simplify_app_congr", "loop")
    /\ Top.k > Len(Top.cg.arg_info)
    /\ Top.changed
    /\ unassigned(Top) # {}
    /\ status' = "crashed"
    /\ UNCHANGED <<input, opts, m_congr_thms, calls, ret, exc, stack, m_num_steps,
                   m_ctx, m_rule_sets, m_cache, m_contextual_depth>>

\* simplify_app_congr, lines 448-456: an argument without context is back
congr_ret_noctx ==
    /\ Running("simplify_app_congr", "ret_noctx")
    /\ LET fr  == Top
           pos == congr_info(fr).arg_pos
           eh  == ensure_homogeneous(arg(fr.e, pos), ret)
       IN  IF ~m_proofs_enabled
           THEN Step(SetTop(congr_next([fr EXCEPT !.new_args[pos + 1] = ret.m_out])))
           ELSE IF ~eh[1] THEN Step(DefaultStart(Base, fr.e))
           ELSE Step(SetTop(congr_next(congr_push_proof_args(fr, eh[2], get_proof(eh[2])))))

\* simplify_app_congr, lines 467-483: an argument simplified under H is back
congr_ret_ctx ==
    /\ Running("simplify_app_congr", "ret_ctx")
    /\ LET fr  == Top
           pos == congr_info(fr).arg_pos
           eh  == ensure_homogeneous(arg(fr.e, pos), ret)
           pr  == Lam(C_name(m_contextual_depth), fr.H,
                      abstract(get_proof(eh[2]), fr.H_proof))
       IN  IF m_proofs_enabled /\ ~eh[1]
           THEN Step(DefaultStart(SetTop([fr EXCEPT !.pc = "tail"]), fr.e))
           ELSE /\ stack' = SetTop(congr_next(
                                IF m_proofs_enabled THEN congr_push_proof_args(fr, eh[2], pr)
                                ELSE [fr EXCEPT !.new_args[pos + 1] = ret.m_out]))
                /\ Restore(fr.guards)
                /\ UNCHANGED <<input, opts, m_congr_thms, calls, ret, status, exc,
                               m_num_steps>>

\* rewrite, lines 794-796: find_match hands the next candidate to check_rule
rewrite_check_rule ==
    /\ Running("rewrite", "find_match")
    /\ LET fr == Top
           c  == next_candidate(fr.rhs.m_out, fr.si, fr.ri)
       IN  /\ c[1] <= Len(m_rule_sets)
           /\ Step(SetTop(check_rule_start([fr EXCEPT !.si = c[1], !.ri = c[2]])))

\* The end of rewrite when no rule has been accepted, without the test of
\* m_single_pass: a changed term is simplified once more in every mode.
rewrite_no_match_always_again ==
    /\ Running("rewrite", "find_match")
    /\ LET fr == Top
           c  == next_candidate(fr.rhs.m_out, fr.si, fr.ri)
       IN  /\ c[1] > Len(m_rule_sets)
           /\ IF fr.lhs # fr.rhs.m_out
              THEN Step(Append(SetTop([fr EXCEPT !.pc = "ret_stab"]),
                               SimplifyFrame(fr.rhs.m_out)))
              ELSE Return(fr.rhs)

\* rewrite, lines 806-811: no rule of any rule set has been accepted
rewrite_no_match ==
    /\ Running("rewrite", "find_match")
    /\ LET fr == Top
           c  == next_candidate(fr.rhs.m_out, fr.si, fr.ri)
       IN  /\ c[1] > Len(m_rule_sets)
           /\ IF ~m_single_pass /\ fr.lhs # fr.rhs.m_out
              THEN Step(Append(SetTop([fr EXCEPT !.pc = "ret_stab"]),
                               SimplifyFrame(fr.rhs.m_out)))
              ELSE Return(fr.rhs)

\* history: the call notes that a rule with a premise has been accepted
noted(s) ==
    LET t == s[Len(s)] IN
    IF t.fn = "rewrite" /\ t.pc = "accepted" /\ ~found_all_args(t.subst)
    THEN [s EXCEPT ![1].cond_fired = TRUE] ELSE s

\* check_rule, lines 745-754 and 784-788: the next undetermined argument, or
\* the end of the loop
rewrite_premise ==
    /\ Running("rewrite", "premise")
    /\ LET fr == Top
           d  == abst_domain(fr.ceq)
       IN  IF fr.i = fr.rule.num_args THEN Step(noted(SetTop(cond_rule_finish(fr))))
           ELSE IF is_proposition(d, m_ctx)
           THEN Step(Append(SetTop([fr EXCEPT !.pc = "premise_ret"]), SimplifyFrame(d)))
           ELSE Step(SetTop(rule_rejected(fr)))

\* check_rule, line 784: mk_app of a buffer with fewer than two expressions
\* reads as[0] past the end of the buffer; the build may stop there
rewrite_bad_app ==
    /\ Running("rewrite", "premise")
    /\ Top.i = Top.rule.num_args
    /\ Len(Top.proof_args) < 2
    /\ status' = "crashed"
    /\ UNCHANGED <<input, opts, m_congr_thms, calls, ret, exc, stack, m_num_steps,
                   m_ctx, m_rule_sets, m_cache, m_contextual_depth>>

\* check_rule, lines 755-777: the premise is back
rewrite_premise_ret ==
    /\ Running("rewrite", "premise_ret")
    /\ Step(SetTop(check_rule_premise(Top, ret)))

\* The accepted rule applied once in every mode: the term it produced is
\* returned without being simplified again.
rewrite_accepted_once ==
    /\ Running("rewrite", "accepted")
    /\ Return(mk_trans_result4(Top.lhs, Top.rhs, Top.new_rhs, Top.new_proof))

\* rewrite, lines 797-802: a rule has been accepted
rewrite_accepted ==
    /\ Running("rewrite", "accepted")
    /\ LET fr     == Top
           new_r1 == mk_trans_result4(fr.lhs, fr.rhs, fr.new_rhs, fr.new_proof)
       IN  IF m_single_pass THEN Return(new_r1)
           ELSE Step(Append(SetTop([fr EXCEPT !.pc = "ret_r2", !.new_r1 = new_r1]),
                            SimplifyFrame(new_r1.m_out)))

\* rewrite, line 802
rewrite_ret_r2 ==
    /\ Running("rewrite", "ret_r2")
    /\ Return(mk_trans_result3(Top.lhs, Top.new_r1, ret))

\* rewrite, line 808
rewrite_ret_stab ==
    /\ Running("rewrite", "ret_stab")
    /\ Return(mk_trans_result3(Top.lhs, Top.rhs, ret))

(***************************************************************************)
(* The kernel's type checker on proof terms: what the external checker     *)
(* accepts.  A proof is a term whose type is the proposition it proves;    *)
(* every theorem is a constant with a Pi type over all its arguments.      *)
(***************************************************************************)
mk_heq(A, B, a, b) == mk_app(<<Const("heq"), A, B, a, b>>)

\* Pi x : T, body  with x written as the constant x in body
Bind(x, T, body) == PiE(x, T, abstract(body, Const(x)))
cA  == Const("?A")
cA2 == Const("?A2")
cB  == Const("?B")
cB2 == Const("?B2")
cC  == Const("?C")
cf  == Const("?f")
cg  == Const("?g")
cx  == Const("?a")
cy  == Const("?b")
cz  == Const("?c")
cP  == Const("?P")
cQ  == Const("?Q")
PiB(T, F) == PiE("x", T, App2(lift_free_vars(F, 0, 1), Var(0)))   \* Pi x : T, F x

thm_type(n) ==
    CASE n = "refl"  -> Bind("?A", TypeE, Bind("?a", cA, mk_eq(cA, cx, cx)))
      [] n = "hrefl" -> Bind("?A", TypeE, Bind("?a", cA, mk_heq(cA, cA, cx, cx)))
      [] n = "trans" ->
            Bind("?A", TypeE, Bind("?a", cA, Bind("?b", cA, Bind("?c", cA,
              Arrow(mk_eq(cA, cx, cy), Arrow(mk_eq(cA, cy, cz), mk_eq(cA, cx, cz)))))))
      [] n = "htrans" ->
            Bind("?A", TypeE, Bind("?B", TypeE, Bind("?C", TypeE,
              Bind("?a", cA, Bind("?b", cB, Bind("?c", cC,
                Arrow(mk_heq(cA, cB, cx, cy),
                      Arrow(mk_heq(cB, cC, cy, cz), mk_heq(cA, cC, cx, cz)))))))))
      [] n = "to_eq" ->
            Bind("?A", TypeE, Bind("?a", cA, Bind("?b", cA,
              Arrow(mk_heq(cA, cA, cx, cy), mk_eq(cA, cx, cy)))))
      [] n = "to_heq" ->
            Bind("?A", TypeE, Bind("?a", cA, Bind("?b", cA,
              Arrow(mk_eq(cA, cx, cy), mk_heq(cA, cA, cx, cy)))))
      [] n = "subst" ->
            Bind("?A", TypeE, Bind("?a", cA, Bind("?b", cA, Bind("?P", Arrow(cA, Bool),
              Arrow(App2(cP, cx), Arrow(mk_eq(cA, cx, cy), App2(cP, cy)))))))
      [] n = "congr1" ->
            Bind("?A", TypeE, Bind("?B", TypeE,
              Bind("?f", Arrow(cA, cB), Bind("?g", Arrow(cA, cB), Bind("?a", cA,
                Arrow(mk_eq(Arrow(cA, cB), cf, cg),
                      mk_eq(cB, App2(cf, cx), App2(cg, cx))))))))
      [] n = "congr2" ->
            Bind("?A", TypeE, Bind("?B", TypeE,
              Bind("?a", cA, Bind("?b", cA, Bind("?f", Arrow(cA, cB),
                Arrow(mk_eq(cA, cx, cy), mk_eq(cB, App2(cf, cx), App2(cf, cy))))))))
      [] n = "congr" ->
            Bind("?A", TypeE, Bind("?B", TypeE,
              Bind("?f", Arrow(cA, cB), Bind("?g", Arrow(cA, cB),
                Bind("?a", cA, Bind("?b", cA,
                  Arrow(mk_eq(Arrow(cA, cB), cf, cg),
                        Arrow(mk_eq(cA, cx, cy),
                              mk_eq(cB, App2(cf, cx), App2(cg, cy))))))))))
      [] n = "hcongr" ->
            Bind("?A", TypeE, Bind("?A2", TypeE,
              Bind("?B", Arrow(cA, TypeE), Bind("?B2", Arrow(cA2, TypeE),
                Bind("?f", PiB(cA, cB), Bind("?g", PiB(cA2, cB2),
                  Bind("?a", cA, Bind("?b", cA2,
                    Arrow(mk_heq(PiB(cA, cB), PiB(cA2, cB2), cf, cg),
                          Arrow(mk_heq(cA, cA2, cx, cy),
                                mk_heq(App2(cB, cx), App2(cB2, cy),
                                       App2(cf, cx), App2(cg, cy))))))))))))
      [] n = "eta" ->
            Bind("?A", TypeE, Bind("?B", Arrow(cA, TypeE), Bind("?f", PiB(cA, cB),
              mk_eq(PiB(cA, cB), Lam("x", cA, App2(cf, Var(0))), cf))))
      [] n = "funext" ->
            Bind("?A", TypeE, Bind("?B", Arrow(cA, TypeE),
              Bind("?f", PiB(cA, cB), Bind("?g", PiB(cA, cB),
                Arrow(PiE("x", cA, mk_eq(App2(cB, Var(0)), App2(cf, Var(0)), App2(cg, Var(0)))),
                      mk_eq(PiB(cA, cB), cf, cg))))))
      [] n = "allext" ->
            Bind("?A", TypeE, Bind("?P", Arrow(cA, Bool), Bind("?Q", Arrow(cA, Bool),
              Arrow(PiE("x", cA, mk_eq(Bool, App2(cP, Var(0)), App2(cQ, Var(0)))),
                    mk_eq(Bool, PiB(cA, cP), PiB(cA, cQ))))))
      [] n = "eqt_elim"  -> Bind("?a", Bool, Arrow(mk_eq(Bool, cx, True), cx))
      [] n = "eqt_intro" -> Bind("?a", Bool, Arrow(cx, mk_eq(Bool, cx, True)))
      [] n = "eqf_intro" -> Bind("?a", Bool, Arrow(mk_not(cx), mk_eq(Bool, cx, False)))
      [] n = "trivial"   -> True
      [] n = "cast_heq" ->
            Bind("?A", TypeE, Bind("?B", TypeE, Bind("?P", mk_eq(TypeE, cA, cB),
              Bind("?a", cA, mk_heq(cB, cA, cast_(cA, cB, cP, cx), cx)))))
      [] n = "if_congr" ->
            Bind("?A", TypeE, Bind("?b", Bool, Bind("?c", Bool,
              Bind("?x", cA, Bind("?y", cA, Bind("?u", cA, Bind("?v", cA,
                Arrow(mk_eq(Bool, cy, cz),
                  Arrow(Arrow(cz, mk_eq(cA, Const("?x"), Const("?u"))),
                    Arrow(Arrow(mk_not(cz), mk_eq(cA, Const("?y"), Const("?v"))),
                          mk_eq(cA, ite_(cA, cy, Const("?x"), Const("?y")),
                                    ite_(cA, cz, Const("?u"), Const("?v")))))))))))))
      [] n = "and_congrl" ->
            Bind("?a", Bool, Bind("?b", Bool, Bind("?c", Bool, Bind("?P", Bool,
              Arrow(Arrow(cx, mk_eq(Bool, cy, cP)),
                Arrow(Arrow(cP, mk_eq(Bool, cx, cz)),
                      mk_eq(Bool, and_(cx, cy), and_(cz, cP))))))))
      [] OTHER -> ErrT

\* The axioms of the object theory: the proof constant of every rule proves
\* the rule's equation.
AllRules == <<R_fa, R_ab, R_ba, R_ca, R_cb, R_q, R_uw, R_comm, R_cond, R_condcomm,
              R_self, R_nonprop, R_ite_t, R_ite_f, R_addab, R_dep>>
is_axiom(n)   == \E i \in 1..Len(AllRules) : AllRules[i].id = n
axiom_type(n) == AllRules[CHOOSE i \in 1..Len(AllRules) : AllRules[i].id = n].ceq

heq_type == PiE("A", TypeE, PiE("B", TypeE, PiE("_", Var(1), PiE("_", Var(1), Bool))))

checked_const_type(n) ==
    IF is_axiom(n) THEN axiom_type(n)
    ELSE IF n = "heq" THEN heq_type
    ELSE IF thm_type(n) # ErrT THEN thm_type(n)
    ELSE const_type(n)

\* Normal form for the conversion test: beta, let, unfolding of definitions
\* and builtins, evaluation; binder names are irrelevant.
RECURSIVE nf(_)
nf_head(b) ==
    IF is_app(b) /\ is_lambda(arg(b, 0)) THEN nf(head_beta_reduce(b))
    ELSE IF normalize(b) # b THEN nf(normalize(b))
    ELSE b

nf(e) ==
    CASE is_constant(e) -> IF get_value(const_name(e)) # e THEN nf(get_value(const_name(e)))
                           ELSE e
      [] is_app(e)      -> nf_head(mk_app([i \in 1..num_args(e) |-> nf(args(e)[i])]))
      [] is_abst(e)     -> <<kind(e), "_", nf(abst_domain(e)), nf(abst_body(e))>>
      [] is_let(e)      -> nf(instantiate(let_body(e), let_value(e)))
      [] OTHER          -> e

\* is_convertible of the kernel: equal normal forms, or Bool where a Type is expected
conv_nf(given, expected) == given # ErrT /\ (given = expected \/ (given = Bool /\ expected = TypeE))
conv(given, expected)    == conv_nf(nf(given), nf(expected))

RECURSIVE check(_, _)
RECURSIVE check_args(_, _, _, _)
check_arg(t, as, k, ctx) ==
    IF is_pi(t) /\ conv_nf(nf(check(as[k], ctx)), abst_domain(t))
    THEN check_args(instantiate(abst_body(t), as[k]), as, k + 1, ctx)
    ELSE ErrT

check_args(t, as, k, ctx) ==
    IF k > Len(as) THEN t ELSE check_arg(nf(t), as, k, ctx)

check_abst(e, body_type) ==
    IF body_type = ErrT THEN ErrT
    ELSE IF is_lambda(e) THEN PiE(abst_name(e), abst_domain(e), body_type)
    ELSE IF nf(body_type) = Bool THEN Bool ELSE TypeE

\* check(e, ctx): the type of e, or ErrT when e is not type correct
check(e, ctx) ==
    CASE is_constant(e) -> checked_const_type(const_name(e))
      [] is_app(e)      -> check_args(check(arg(e, 0), ctx), args(e), 2, ctx)
      [] is_abst(e)     -> IF check(abst_domain(e), ctx) = ErrT THEN ErrT
                           ELSE check_abst(e, check(abst_body(e),
                                                    extend(ctx, abst_name(e), abst_domain(e))))
      [] is_let(e)      -> check(instantiate(let_body(e), let_value(e)), ctx)
      [] e = NullE \/ kind(e) = "mvar" -> ErrT
      [] OTHER          -> infer_type(e, ctx)

\* p is a type-correct proof of the proposition stated
proves(p, stated) == conv(check(p, <<>>), stated) /\ check(stated, <<>>) = Bool

\* What a finished call claims: input = out, or input == out when flagged heq
stated_by(c) ==
    IF c.heq THEN mk_heq(infer_type(c.input.e, c.input.ctx), infer_type(c.out, c.input.ctx),
                         c.input.e, c.out)
    ELSE mk_eq(infer_type(c.input.e, c.input.ctx), c.input.e, c.out)

(***************************************************************************)
(* The calls checked: terms, rule sets and environments, and the options.  *)
(***************************************************************************)
Input(e, rs, has_heq, has_cast) ==
    [e |-> e, ctx |-> <<>>, rs |-> rs, has_heq |-> has_heq, has_cast |-> has_cast]

Rules(rules) == RuleSet(rules, <<>>)
IfCongr      == RuleSet(<<R_ite_t, R_ite_f>>, <<if_congr>>)
AndCongr     == RuleSet(<<>>, <<and_congrl>>)

Inputs ==
    { Input(f_(ca), <<Rules(<<R_fa>>)>>, FALSE, FALSE),
      Input(f_(ca), <<Rules(<<R_nonprop, R_fa>>)>>, FALSE, FALSE),
      Input(add_(cb, ca), <<Rules(<<R_comm>>)>>, FALSE, FALSE),
      Input(add_(ca, cb), <<Rules(<<R_comm>>)>>, FALSE, FALSE),
      Input(add_(ca, cb), <<Rules(<<R_comm, R_addab>>)>>, FALSE, FALSE),
      Input(add_(cb, ca), <<Rules(<<R_condcomm, R_q>>)>>, FALSE, FALSE),
      Input(add_(ca, cb), <<Rules(<<R_condcomm, R_q>>)>>, FALSE, FALSE),
      Input(g_(cc), <<Rules(<<R_cond, R_q>>)>>, FALSE, FALSE),
      Input(g_(cc), <<Rules(<<R_cond>>)>>, FALSE, FALSE),
      Input(g_(cc), <<Rules(<<R_dep, R_q>>)>>, FALSE, FALSE),
      Input(g_(cc), <<Rules(<<R_self>>)>>, FALSE, FALSE),
      Input(f_(ca), <<Rules(<<R_fa, R_ba, R_ab>>)>>, FALSE, FALSE),
      Input(cc, <<Rules(<<R_ca>>), Rules(<<R_cb>>)>>, FALSE, FALSE),
      Input(cc, <<Rules(<<R_ca, R_ab>>)>>, FALSE, FALSE),
      Input(add_(cc, f_(ca)), <<Rules(<<R_fa>>), Rules(<<R_ca, R_comm>>)>>, FALSE, FALSE),
      Input(ite_(Bool, cp, cp, Const("r")), <<IfCongr>>, FALSE, FALSE),
      Input(ite_(N, cp, ite_(N, cp, ca, cb), cc), <<IfCongr>>, FALSE, FALSE),
      Input(ite_(N, cq, f_(ca), cc), <<Rules(<<R_fa, R_q>>), IfCongr>>, FALSE, FALSE),
      Input(and_(cp, cp), <<AndCongr>>, FALSE, FALSE),
      Input(mk_app(<<Const("ite"), Arrow(N, N), cq, Const("f"), Const("g"), ca>>),
            <<Rules(<<R_q>>), IfCongr>>, FALSE, FALSE),
      Input(ite_(TyB, cp, cast_(TyA, TyB, Const("hAB"), Const("u")), Const("v")),
            <<IfCongr>>, TRUE, TRUE),
      Input(ite_(TyA, cp, cast_(TyA, TyA, Const("hAA"), Const("u")), Const("w")),
            <<IfCongr>>, TRUE, TRUE),
      Input(cast_(TyA, TyB, Const("hAB"), Const("u")), <<Rules(<<R_uw>>)>>, TRUE, TRUE),
      Input(ite_(N, cq, f_(ca), cc), <<Rules(<<R_fa, R_q>>)>>, FALSE, FALSE),
      Input(mk_app(<<Const("len"), f_(ca), App2(Const("mk"), f_(ca))>>),
            <<Rules(<<R_fa>>)>>, FALSE, FALSE),
      Input(mk_app(<<Const("k"), f_(ca), cast_(TyA, TyA, Const("hAA"), Const("u"))>>),
            <<Rules(<<R_fa>>)>>, TRUE, TRUE),
      Input(f_(Const("d")), <<Rules(<<R_fa>>)>>, TRUE, FALSE),
      Input(Lam("x", N, f_(Var(0))), <<Rules(<<R_fa>>)>>, FALSE, FALSE),
      Input(Lam("x", N, add_(f_(ca), Var(0))), <<Rules(<<R_fa>>)>>, FALSE, FALSE),
      Input(PiE("x", N, cq), <<Rules(<<R_q>>)>>, FALSE, FALSE),
      Input(LetE("x", ca, f_(Var(0))), <<Rules(<<R_fa>>)>>, FALSE, FALSE),
      Input(add_(Const("two"), Val("3")), <<Rules(<<R_fa>>)>>, FALSE, FALSE),
      Input(App2(Lam("x", N, Var(0)), Val("5")), <<Rules(<<R_fa>>)>>, FALSE, FALSE),
      Input(App2(Lam("x", N, f_(Var(0))), Const("d")), <<Rules(<<R_fa>>)>>, FALSE, FALSE) }

OptNames == {"proofs", "contextual", "single_pass", "beta", "eta", "eval", "unfold",
             "conditional", "memoize"}

\* the defaults of the options (lines 27-65)
DefaultOpts ==
    [proofs |-> TRUE, contextual |-> TRUE, single_pass |-> FALSE, beta |-> TRUE,
     eta |-> TRUE, eval |-> TRUE, unfold |-> FALSE, conditional |-> TRUE,
     memoize |-> TRUE, max_steps |-> UIntMax]

\* the options checked: at most MaxFlips options away from their defaults,
\* and a step limit
MaxFlips  == 1
LowSteps  == 3
HighSteps == 9
StepLimits == {UInt(LowSteps), UInt(HighSteps), UIntMax}

Flipped(S, limit) ==
    [k \in DOMAIN DefaultOpts |->
        IF k = "max_steps" THEN limit
        ELSE IF k \in S THEN ~DefaultOpts[k] ELSE DefaultOpts[k]]

Options == {Flipped(S, limit) : S \in {T \in SUBSET OptNames : Cardinality(T) <= MaxFlips},
                                limit \in StepLimits}

\* the constructor (lines 1012-1024); m_num_steps is not initialized by it
Constructed(i, o) ==
    /\ input = i
    /\ opts = o
    /\ m_rule_sets = ctor_rule_sets(o.contextual, i.rs)
    /\ m_congr_thms = collect_congr_thms(o.contextual, ctor_rule_sets(o.contextual, i.rs),
                                         1, <<>>)
    /\ m_contextual_depth = 0
    /\ m_ctx = <<>>
    /\ m_cache = {}

\* The free function simplify (lines 1034-1037) called once more by its
\* client after a call that returned: on the term returned, on the same
\* term with the rule sets passed in the opposite order, on the same
\* term without the rules that have premises, or on the same term with the
\* option memoize turned off.  Every call constructs its own simplifier.
MaxCalls == 2

reversed(s) == [i \in 1..Len(s) |-> s[Len(s) + 1 - i]]

\* a rule whose left-hand side does not determine all its arguments
is_conditional_rule(r) == \E i \in 0..(r.num_args - 1) : ~has_free_var(r.lhs, i)

without_conditional(rss) ==
    [k \in 1..Len(rss) |->
        [rss[k] EXCEPT !.rules = SelectSeq(@, LAMBDA r : ~is_conditional_rule(r))]]

FollowUps(c) ==
    (IF c.out # c.input.e THEN {[c.input EXCEPT !.e = c.out]} ELSE {})
    \cup (IF Len(c.input.rs) > 1 THEN {[c.input EXCEPT !.rs = reversed(@)]} ELSE {})
    \cup (IF without_conditional(c.input.rs) # c.input.rs
          THEN {[c.input EXCEPT !.rs = without_conditional(@)]} ELSE {})

\* the next call: its input and its options
Recalls(c) ==
    {[input |-> i, opts |-> c.opts] : i \in FollowUps(c)}
    \cup (IF c.opts.memoize
          THEN {[input |-> c.input, opts |-> [c.opts EXCEPT !.memoize = FALSE]]} ELSE {})

simplify_again ==
    /\ status = "returned"
    /\ Len(calls) < MaxCalls
    /\ \E n \in Recalls(calls[Len(calls)]) :
          /\ input' = n.input
          /\ opts' = n.opts
          /\ m_rule_sets' = ctor_rule_sets(m_contextual, n.input.rs)
          /\ m_congr_thms' = collect_congr_thms(m_contextual,
                                   ctor_rule_sets(m_contextual, n.input.rs), 1, <<>>)
    /\ m_contextual_depth' = 0
    /\ m_ctx' = <<>>
    /\ m_cache' = {}
    /\ m_num_steps' \in {UInt(0), UIntMax}
    /\ stack' = <<>>
    /\ ret' = result(NullE)
    /\ status' = "idle"
    /\ exc' = "none"
    /\ UNCHANGED calls

Init ==
    /\ \E i \in Inputs, o \in Options : Constructed(i, o)
    /\ m_num_steps \in {UInt(0), UIntMax}
    /\ stack = <<>>
    /\ ret = result(NullE)
    /\ status = "idle"
    /\ exc = "none"
    /\ calls = <<>>

Next ==
    \/ simplify_again
    \/ operator_call
    \/ operator_return
    \/ unwind
    \/ simplify_interrupted
    \/ simplify_exhausted
    \/ simplify_cached
    \/ simplify_leaf
    \/ simplify_save
    \/ simplify_let
    \/ simplify_constant
    \/ simplify_app
    \/ simplify_cast_ret
    \/ simplify_lambda
    \/ simplify_lambda_ret
    \/ simplify_pi
    \/ simplify_pi_ret
    \/ tail_return
    \/ default_ret_f
    \/ default_loop
    \/ default_ret_a
    \/ congr_loop
    \/ congr_bad_app
    \/ congr_ret_noctx
    \/ congr_ret_ctx
    \/ rewrite_check_rule
    \/ rewrite_no_match
    \/ rewrite_premise
    \/ rewrite_bad_app
    \/ rewrite_premise_ret
    \/ rewrite_accepted
    \/ rewrite_ret_r2
    \/ rewrite_ret_stab

Spec == Init /\ [][Next]_vars

(***************************************************************************)
(* Properties.                                                             *)
(***************************************************************************)
Returned(c) == c.outcome = "returned"
Last        == calls[Len(calls)]
Finished    == Len(calls) > 0 /\ status \in {"returned", "exhausted", "interrupted"}

\* C1 (soundness).  With proofs enabled, the proof returned by every
\* top-level call is accepted by the type checker as a proof of input = out,
\* or of input == out when the result is flagged heterogeneous.
C1_Soundness ==
    \A i \in 1..Len(calls) :
        (Returned(calls[i]) /\ calls[i].opts.proofs)
            => proves(calls[i].proof, stated_by(calls[i]))

\* C2 (proof elision).  With proofs off, no result held anywhere (the value
\* returned last, the results kept by rewrite, the cache entries, live or
\* set aside by a cache guard) has a proof or the heq flag, and the proof
\* returned by every top-level call is refl(infer_type(out), out).
no_proof(r) == r.m_proof = none_expr /\ ~r.m_heq_proof

frame_elided(fr) ==
    /\ fr.fn = "rewrite" => no_proof(fr.rhs) /\ no_proof(fr.new_r1)
    /\ fr.fn = "simplify_app_default" => fr.proofs = <<>> /\ fr.heq_proofs = <<>>
    /\ fr.guards.cache # <<>> => \A c \in fr.guards.cache[1] : no_proof(c.r)

C2_ProofElision ==
    ~m_proofs_enabled =>
        /\ no_proof(ret)
        /\ \A c \in m_cache : no_proof(c.r)
        /\ \A k \in 1..Len(stack) : frame_elided(stack[k])
        /\ \A i \in 1..Len(calls) :
              Returned(calls[i]) =>
                  /\ ~calls[i].has_proof /\ ~calls[i].heq
                  /\ calls[i].proof = mk_refl_th(infer_type(calls[i].out, calls[i].input.ctx),
                                                 calls[i].out)

\* a call with proofs off whose premise was discharged and whose term was rewritten
C2_Witness ==
    /\ Finished /\ Returned(Last) /\ ~m_proofs_enabled
    /\ Last.input.e = g_(cc) /\ Last.out = ca


\* C3 (termination).  A top-level call that has stopped running has returned
\* a result or raised the exhaustion error (or the interruption its
\* environment asked for): it never ends in any other way.
C3_ReturnsOrExhausts ==
    status \in {"idle", "running", "unwinding", "returned", "exhausted", "interrupted"}

\* C4 (step accounting).  operator() sets the counter to 0; every entry of
\* the driver that gets past check_system adds exactly one, before the cache
\* is looked at, and raises the exhaustion error exactly when the new value
\* is greater than max_steps; no other step of the call changes the counter,
\* and the counter of a call that goes on is at most max_steps.
AtDriverEntry == Running("simplify", "enter")
Interrupts    == status' = "unwinding" /\ exc' = "interrupted"
Exhausts      == status' = "unwinding" /\ exc' = "exhausted"

StepAccounting ==
    /\ (status = "idle" /\ status' = "running") => m_num_steps' = UInt(0)
    /\ (AtDriverEntry /\ ~Interrupts) =>
          /\ m_num_steps' = uint_inc(m_num_steps)
          /\ uint_gt(m_num_steps', m_num_steps)
          /\ Exhausts <=> uint_gt(m_num_steps', m_max_steps)
    /\ (AtDriverEntry /\ Interrupts) => m_num_steps' = m_num_steps
    /\ (status \in {"running", "unwinding"} /\ ~AtDriverEntry) =>
          /\ m_num_steps' = m_num_steps
          /\ status' = "unwinding" => status = "unwinding"
    /\ status' = "running" => ~uint_gt(m_num_steps', m_max_steps)

C4_StepAccounting == [][StepAccounting]_vars

\* a call on (ite Bool p p r) that ran out of steps: it was stopped by the
\* entry that took the counter to max_steps + 1
C4_Witness ==
    /\ Finished /\ Last.outcome = "exhausted"
    /\ Last.steps = uint_inc(m_max_steps)
    /\ Last.input.e = ite_(Bool, cp, cp, Const("r"))

\* C5 (permutation safety).  A permutation rule that check_rule has
\* accepted, on the path where all arguments were matched or on the
\* conditional path, has an instantiated right-hand side strictly below the
\* target in the term order, and that right-hand side is the output of the
\* rewrite step.
permutation_safe(fr) ==
    (fr.fn = "rewrite" /\ fr.pc \in {"accepted", "ret_r2"} /\ fr.rule.is_permutation)
        => /\ is_lt(fr.new_rhs, fr.rhs.m_out)
           /\ fr.pc = "ret_r2" => fr.new_r1.m_out = fr.new_rhs

C5_PermutationSafety == \A k \in 1..Len(stack) : permutation_safe(stack[k])

\* the conditional permutation rule has fired, after its premise was proved
C5_Witness ==
    /\ Running("rewrite", "ret_r2")
    /\ Top.rule.id = "H_ccomm"
    /\ Top.rhs.m_out = add_(cb, ca) /\ Top.new_r1.m_out = add_(ca, cb)

\* C6 (cache scoping).  With memoize on, the entry the driver is about to
\* return for a term was computed under the local context and the rule sets
\* in force at the lookup; and every scope that changes the context or
\* installs a hypothesis in rule set 0 holds a guard that gave it an empty
\* cache and gives the previous cache back at its exit.
cache_hit ==
    /\ AtDriverEntry
    /\ ~uint_gt(uint_inc(m_num_steps), m_max_steps)
    /\ m_memoize /\ cache_find(Top.e) # {}

scope_resets_cache(fr) ==
    (fr.guards.rs0 # <<>> \/ fr.guards.ctx # <<>>) => fr.guards.cache # <<>>

C6_CacheScoping ==
    /\ cache_hit => /\ cache_get(Top.e).ctx = m_ctx
                    /\ cache_get(Top.e).rule_sets = m_rule_sets
    /\ \A k \in 1..Len(stack) : scope_resets_cache(stack[k])

\* C7 (scoped state).  When a call of the driver finishes, by return or by
\* an exception passing through it, m_ctx, m_contextual_depth and the rule
\* sets are what they were at its entry; when the top-level call finishes,
\* so is the cache.  During a call the rule sets after the first are never
\* changed, and the first only by a frame that keeps its old value in a
\* guard, or by the exit of a frame.
Executing == status \in {"running", "unwinding"}
Leaves    == Executing /\ Len(stack') < Len(stack)

ScopedStateIs(a) ==
    /\ m_ctx' = a.ctx
    /\ m_contextual_depth' = a.depth
    /\ m_rule_sets' = a.rule_sets

ScopeRestored ==
    /\ (Leaves /\ Top.fn = "simplify") => ScopedStateIs(Top.at_entry)
    /\ (Leaves /\ Top.fn = "operator()") =>
          /\ ScopedStateIs(Top.at_entry)
          /\ m_cache' = Top.at_entry.cache
          /\ status' \in {"returned", "exhausted", "interrupted"}
    /\ Executing =>
          /\ Len(m_rule_sets') = Len(m_rule_sets)
          /\ \A i \in 2..Len(m_rule_sets) : m_rule_sets'[i] = m_rule_sets[i]
          /\ m_rule_sets'[1] # m_rule_sets[1] =>
                \/ Len(stack') < Len(stack)
                \/ /\ Len(stack') > Len(stack)
                   /\ stack'[Len(stack)].guards.rs0 = <<m_rule_sets[1]>>
                \/ /\ Len(stack') = Len(stack)
                   /\ Top.guards.rs0 = <<m_rule_sets'[1]>>

C7_ScopeRestored == [][ScopeRestored]_vars

\* the exhaustion error raised under a hypothesis of if_congr has left the
\* call: the hypothesis is gone from rule set 0
C7_Witness ==
    /\ Finished /\ Last.outcome = "exhausted"
    /\ m_proofs_enabled /\ m_max_steps = UInt(LowSteps)
    /\ Last.input.e = ite_(Bool, cp, cp, Const("r"))
    /\ m_rule_sets[1] = EmptyRuleSet /\ m_contextual_depth = 0 /\ m_cache = {}

\* C8 (idempotence).  With single_pass off, when a call on e has returned
\* out, a call on out with the same context, rule sets and options (and not
\* interrupted) returns out again, with no proof in its result.
is_rerun_of(c2, c1) ==
    /\ Returned(c1) /\ ~c1.opts.single_pass
    /\ c2.input = [c1.input EXCEPT !.e = c1.out]
    /\ c2.opts = c1.opts
    /\ c2.outcome # "interrupted"

heads(rs) ==
    {head_symbol(rs.rules[k].lhs) : k \in 1..Len(rs.rules)}
    \cup {rs.congr[k].fun : k \in 1..Len(rs.congr)}

DisjointHeads(rss) ==
    \A i, j \in 1..Len(rss) : i # j => heads(rss[i]) \cap heads(rss[j]) = {}

is_reordering_of(c2, c1) ==
    /\ c2.input = [c1.input EXCEPT !.rs = reversed(@)]
    /\ c2.opts = c1.opts
    /\ DisjointHeads(c1.input.rs)
    /\ c1.outcome # "interrupted" /\ c2.outcome # "interrupted"

C9_RuleSetOrder ==
    \A i, j \in 1..Len(calls) :
        is_reordering_of(calls[j], calls[i])
            => calls[j].outcome = calls[i].outcome /\ calls[j].out = calls[i].out

\* add c (f a) has been simplified to add a b with the rule set for f passed
\* first, and again with the rule set for c and add passed first
C9_Witness ==
    /\ Len(calls) = 2 /\ status = "returned"
    /\ is_reordering_of(calls[2], calls[1])
    /\ Len(calls[1].input.rs) = 2
    /\ calls[1].input.e = add_(cc, f_(ca))
    /\ calls[1].out = add_(ca, cb) /\ calls[2].out = add_(ca, cb)

\* C10 (first accepted rule wins).  When check_rule has accepted a rule for a
\* target, the candidates it was handed are exactly the candidates that come
\* before the accepted one, rule set by rule set in index order and rule by
\* rule in the set's order, each of them once and each rejected; after the
\* acceptance no further candidate is tried; and new_rhs, and new_proof when
\* proofs are on, are the instance of the accepted rule for this target.
pairs_upto(target, si, ri) ==
    {<<s, r>> \in (1..si) \X (1..Len(AllRules)) :
        r <= Len(candidates(m_rule_sets[s], target)) /\ (s < si \/ r <= ri)}

lex_lt(x, y) == x[1] < y[1] \/ (x[1] = y[1] /\ x[2] < y[2])

tried_in_order(fr) ==
    LET t == fr.tried
        n == Len(t)
    IN  /\ n >= 1 /\ t[n] = <<fr.si, fr.ri, TRUE>>
        /\ \A k \in 1..(n - 1) : ~t[k][3] /\ lex_lt(t[k], t[k + 1])
        /\ {<<t[k][1], t[k][2]>> : k \in 1..n} = pairs_upto(fr.rhs.m_out, fr.si, fr.ri)

\* the instance of the rule's right-hand side for the target; pr are the
\* proofs of the premises (the arguments the match leaves undetermined)
rhs_instance(rule, m, pr) ==
    instantiate_n(rule.rhs, rule.num_args,
                  [i \in 1..rule.num_args |->
                      IF is_some(m.subst[i]) THEN the(m.subst[i]) ELSE pr[i]])

\* the proofs of the premises: they are arguments of new_proof when proofs
\* are on, and the right-hand side does not mention them when proofs are off
premise_proofs(fr, rule) ==
    [i \in 1..rule.num_args |->
        IF m_proofs_enabled /\ is_app(fr.new_proof) /\ i < num_args(fr.new_proof)
        THEN arg(fr.new_proof, i) ELSE NullE]

\* p applies the rule's proof to the values matched (and to the proofs of
\* its premises)
proof_instance(p, rule, m) ==
    IF rule.num_args = 0 THEN p = rule.proof
    ELSE /\ is_app(p) /\ num_args(p) = rule.num_args + 1 /\ arg(p, 0) = rule.proof
         /\ \A i \in 1..rule.num_args : is_some(m.subst[i]) => arg(p, i) = the(m.subst[i])

accepted_rule_used(fr, rule, m) ==
    /\ m.ok
    /\ fr.new_rhs = rhs_instance(rule, m, premise_proofs(fr, rule))
    /\ m_proofs_enabled => proof_instance(fr.new_proof, rule, m)
    /\ fr.pc = "ret_r2" => fr.new_r1.m_out = fr.new_rhs

first_accepted(fr) ==
    (fr.fn = "rewrite" /\ fr.pc \in {"accepted", "ret_r2"})
        => /\ fr.tried # <<>> /\ fr.tried[Len(fr.tried)] = <<fr.si, fr.ri, TRUE>>
           /\ accepted_rule_used(fr, fr.rule,
                                 hop_match(fr.rule.lhs, fr.rhs.m_out, fr.rule.num_args))

C10_FirstAcceptedWins ==
    /\ \A k \in 1..Len(stack) : first_accepted(stack[k])
    /\ Running("rewrite", "accepted") =>
          /\ tried_in_order(Top)
          /\ Top.rule = candidates(m_rule_sets[Top.si], Top.rhs.m_out)[Top.ri]

\* add a b: the permutation rule came first and was rejected after it had
\* set new_rhs to add b a; the rule add a b = c after it is accepted
C10_Witness ==
    /\ Running("rewrite", "accepted")
    /\ Top.rhs.m_out = add_(ca, cb)
    /\ Top.tried = <<<<2, 1, FALSE>>, <<2, 2, TRUE>>>>
    /\ Top.rule.id = "H_addab" /\ Top.new_rhs = cc

\* C11 (argument order), as stated.  In every application being simplified,
\* on the default path and on the congruence path, the arguments are handed
\* to the driver in increasing position; and an argument simplified under a
\* hypothesis taken from the new value of another argument is handed to the
\* driver after that other argument.
increasing(s) == \A k \in 1..(Len(s) - 1) : s[k] < s[k + 1]

is_app_frame(fr) == fr.fn \in {"simplify_app_default", "simplify_app_congr"}

under_new_value(fr) ==
    /\ fr.fn = "simplify_app_congr" /\ fr.pc = "ret_ctx"
    /\ congr_info(fr).use_new_val

dependency_visited(fr) ==
    \E k \in 1..(Len(fr.visited) - 1) : fr.visited[k] = congr_info(fr).ctx_arg_pos

C11_LeftToRight ==
    \A k \in 1..Len(stack) :
        is_app_frame(stack[k]) =>
            /\ increasing(stack[k].visited)
            /\ under_new_value(stack[k]) => dependency_visited(stack[k])

\* C11 (argument order), amended.  On the default path the head and then the
\* arguments are handed to the driver in increasing position.  On the
\* congruence path the arguments are handed to the driver in the order in
\* which the theorem's arg_info lists them, which need not be increasing;
\* the hypothesis is read from new_args (use_new_val) or from e at the
\* moment the argument is reached, so it is the simplified value of the
\* other argument when the theorem lists that argument earlier.
listed(thm, n) ==
    LET simp == SelectSeq(SubSeq(thm.arg_info, 1, n), LAMBDA a : a.should_simplify)
    IN  [j \in 1..Len(simp) |-> simp[j].arg_pos]

default_order(fr) ==
    /\ increasing(fr.visited)
    /\ \A k \in 1..Len(fr.visited) : fr.visited[k] <= fr.i
    /\ fr.pc = "ret_f" => fr.visited = <<0>>
    /\ fr.pc = "ret_a" => fr.visited[Len(fr.visited)] = fr.i

congr_order(fr) ==
    /\ fr.visited = listed(fr.cg, IF fr.pc = "loop" THEN fr.k - 1 ELSE fr.k)
    /\ fr.pc = "ret_ctx" =>
          LET info == congr_info(fr)
              h0   == IF info.use_new_val THEN fr.new_args[info.ctx_arg_pos + 1]
                      ELSE arg(fr.e, info.ctx_arg_pos)
          IN  /\ fr.H = IF info.is_pos_dep THEN h0 ELSE mk_not(h0)
              /\ (info.use_new_val /\ dependency_visited(fr)) => h0 # NullE

C11_ArgumentOrder ==
    \A k \in 1..Len(stack) :
        /\ stack[k].fn = "simplify_app_default" => default_order(stack[k])
        /\ stack[k].fn = "simplify_app_congr" => congr_order(stack[k])

\* and p p under and_congrl: the second argument was simplified first, to
\* true under the hypothesis p, and the first argument is now simplified
\* under the hypothesis true
C11_Witness ==
    /\ status = "running"
    /\ \E k \in 1..Len(stack) :
          /\ stack[k].fn = "simplify_app_congr" /\ stack[k].pc = "ret_ctx"
          /\ stack[k].e = and_(cp, cp)
          /\ stack[k].visited = <<2, 1>>
          /\ stack[k].new_args[3] = True /\ stack[k].H = True

\* C12 (option conditional).  With conditional off, check_rule never takes
\* the conditional path: no premise of a rule is handed to the driver, and
\* every accepted rule had all its arguments determined by the match.
conditional_path(fr) ==
    /\ fr.fn = "rewrite"
    /\ \/ fr.pc \in {"premise", "premise_ret"}
       \/ fr.pc \in {"accepted", "ret_r2"} /\ ~found_all_args(fr.subst)

C12_ConditionalOff ==
    ~m_conditional => \A k \in 1..Len(stack) : ~conditional_path(stack[k])

\* C13 (option beta).  A call on an application whose head is a lambda:
\* with beta on, (fun x : N, x) 5 returns 5 with no proof; with beta off and
\* every other option at its default, and no rule matching, the application
\* is returned unchanged, also when all its arguments are values.  (A head
\* that eta reduction applies to is left out: the head is then rewritten
\* by eta, whatever beta is.)
beta_redex(e) == is_app(e) /\ is_lambda(arg(e, 0)) /\ ~is_eta_target(arg(e, 0))

id_of_5 == App2(Lam("x", N, Var(0)), Val("5"))

only_beta_off(o) == o = [DefaultOpts EXCEPT !.beta = FALSE, !.max_steps = o.max_steps]

C13_BetaOption ==
    \A k \in 1..Len(calls) :
        LET c == calls[k] IN
        (Returned(c) /\ beta_redex(c.input.e)) =>
            /\ (c.opts.beta /\ c.input.e = id_of_5) => (c.out = Val("5") /\ ~c.has_proof)
            /\ only_beta_off(c.opts) => c.out = c.input.e

\* C14 (a failed premise is not an error).  A candidate rejected by
\* check_rule (its premise is not a proposition, or does not simplify to
\* true, or, with proofs off, the equation depends on it) raises nothing:
\* the search goes on with the candidate after it.  And a call in which no
\* rule with a premise was accepted returns the term and the proof that the
\* call without those rules returns.
search_goes_on(fr) ==
    (fr.fn = "rewrite" /\ fr.pc = "find_match" /\ fr.tried # <<>>) =>
        /\ \A k \in 1..Len(fr.tried) : ~fr.tried[k][3]
        /\ fr.tried[Len(fr.tried)] = <<fr.si, fr.ri - 1, FALSE>>

is_without_premises_of(c2, c1) ==
    /\ c2.input = [c1.input EXCEPT !.rs = without_conditional(@)]
    /\ c2.input # c1.input
    /\ c2.opts = c1.opts
    /\ Returned(c1) /\ ~c1.cond_fired
    /\ c2.outcome # "interrupted"

C14_SilentRejection ==
    /\ status \in {"running", "unwinding"} =>
          \A k \in 1..Len(stack) : search_goes_on(stack[k])
    /\ status = "unwinding" => exc \in {"exhausted", "interrupted"}
    /\ \A i, j \in 1..Len(calls) :
          is_without_premises_of(calls[j], calls[i]) =>
              /\ Returned(calls[j])
              /\ calls[j].out = calls[i].out /\ calls[j].proof = calls[i].proof

\* g c with the rule  forall x (h : q), g x = pick h  and proofs off: q was
\* simplified to true, the rule was rejected because its equation depends
\* on h, and the call returned g c, as it does without the rule
C14_Witness ==
    /\ Len(calls) = 2 /\ status = "returned"
    /\ is_without_premises_of(calls[2], calls[1])
    /\ calls[1].input.rs = <<Rules(<<R_dep, R_q>>)>>
    /\ ~calls[1].opts.proofs
    /\ calls[1].out = g_(cc) /\ calls[2].out = g_(cc)

\* C15 (the fallback runs outside the hypothesis).  When ensure_homogeneous
\* fails for an argument simplified under a hypothesis and simplify_app_congr
\* falls back to simplify_app_default(e), the hypothesis has left rule set 0,
\* the cache and m_contextual_depth are back (the guards of the scope are
\* gone), and the proof the fallback returns does not mention the
\* placeholder of the hypothesis.
in_fallback(fr) == fr.fn = "simplify_app_congr" /\ fr.pc = "tail"

mentions(e, c) == abstract(e, c) # e

C15_FallbackScope ==
    /\ status \in {"running", "unwinding"} =>
          \A k \in 1..Len(stack) : in_fallback(stack[k]) => stack[k].guards = NoGuards
    /\ (status = "running" /\ in_fallback(Top) /\ is_some(ret.m_proof)) =>
          ~mentions(the(ret.m_proof), Top.H_proof)

\* C16 (ensure_homogeneous clears the flag).  Whenever simplify_app_congr gets
\* an argument back with proofs on and ensure_homogeneous returns true on it,
\* the result it leaves has heq = false; when the result came in with
\* heq = false, or ensure_homogeneous returns false, it is left as it was.
homogeneous_call(fr) ==
    /\ fr.fn = "simplify_app_congr"
    /\ fr.pc \in {"ret_noctx", "ret_ctx"}
    /\ m_proofs_enabled

C16_HeqCleared ==
    (status = "running" /\ homogeneous_call(Top)) =>
        LET lhs == arg(Top.e, congr_info(Top).arg_pos)
            eh  == ensure_homogeneous(lhs, ret)
        IN  /\ eh[1] => ~eh[2].m_heq_proof
            /\ (~ret.m_heq_proof) => eh = <<TRUE, ret>>
            /\ (~eh[1]) => eh[2] = ret

\* C17 (new_proof is assembled only when proofs are on).  With proofs off,
\* the step of check_rule that follows the last premise of a conditional rule
\* builds no application from the proof-argument buffer: the call goes on,
\* new_rhs is the right-hand side of the instantiated equation, new_proof is
\* not an application, and the rule is accepted (unless it is a permutation
\* rule, which the ordering test may reject).
premises_done ==
    /\ Running("rewrite", "premise")
    /\ Top.i = Top.rule.num_args
    /\ ~m_proofs_enabled

NoProofAssembly ==
    premises_done =>
        /\ status' = "running"
        /\ Len(stack') = Len(stack)
        /\ LET fr == stack'[Len(stack')]
           IN  /\ fr.new_rhs = arg(Top.ceq, num_args(Top.ceq) - 1)
               /\ ~is_app(fr.new_proof)
               /\ fr.pc = "accepted" \/ Top.rule.is_permutation

C17_NoProofAssembly == [][NoProofAssembly]_vars

\* C18 (the proof builders get the type of the prefix).  When
\* simplify_app_default builds its proof, f_types[i-1] is the type of the
\* prefix of length i of the application, and at every position i where the
\* homogeneous proof of the prefix is lifted by to_heq, the type given to
\* to_heq is f_types[i-1], as it is for congr1, congr and hcongr.
building_proof(fr) ==
    /\ fr.fn = "simplify_app_default" /\ fr.pc = "loop"
    /\ fr.i = num_args(fr.e)
    /\ m_proofs_enabled /\ fr.changed
    /\ default_first_proof(fr, 0) < num_args(fr.e)

\* the proof of the prefix of length i, as the loop has it on entry to step i
accumulated(fr, i) ==
    LET first == default_first_proof(fr, 0)
    IN  default_proof_upto(fr, first + 1, i, default_seed(fr, first))

lifted_at(fr, i) ==
    /\ accumulated(fr, i).ok /\ ~accumulated(fr, i).heq
    /\ is_some(fr.proofs[i + 1])
    /\ m_has_heq /\ fr.heq_proofs[i + 1]

C18_PrefixTypes ==
    (status = "running" /\ building_proof(Top)) =>
        \A i \in (default_first_proof(Top, 0) + 1)..(num_args(Top.e) - 1) :
            /\ is_definitionally_equal(Top.f_types[i],
                                       tc_infer_type(mk_app_prefix(i, args(Top.e))))
            /\ lifted_at(Top, i) => lift_type(Top, i) = Top.f_types[i]

\* C19 (dependent positions are kept without heq).  In simplify_app_default,
\* for every argument position j already gone through: when heq is not
\* imported and the type of the function at position j (the type of the
\* prefix of length j) is not a non-dependent arrow, argument j has not been
\* handed to the driver, is unchanged in the rebuilt application and has no
\* proof; in every other case argument j has been handed to the driver.  The
\* changed flag is set exactly when some rebuilt argument differs.
dependent_position(e, j) ==
    ~is_arrow(ensure_pi(tc_infer_type(mk_app_prefix(j, args(e)))))

was_visited(fr, j) == \E n \in 1..Len(fr.visited) : fr.visited[n] = j

position_kept(fr, j) ==
    IF ~m_has_heq /\ dependent_position(fr.e, j)
    THEN /\ ~was_visited(fr, j)
         /\ fr.new_args[j + 1] = arg(fr.e, j)
         /\ m_proofs_enabled => ~is_some(fr.proofs[j + 1])
    ELSE was_visited(fr, j)

C19_DependentKept ==
    status = "running" =>
        \A n \in 1..Len(stack) :
            (stack[n].fn = "simplify_app_default" /\ stack[n].pc \in {"loop", "ret_a"}) =>
                /\ \A j \in 1..(Len(stack[n].new_args) - 1) : position_kept(stack[n], j)
                /\ stack[n].changed = (\E j \in 0..(Len(stack[n].new_args) - 1) :
                                          stack[n].new_args[j + 1] # arg(stack[n].e, j))

\* C20 (mk_hcongr_th fails).  When mk_hcongr_th returns none while
\* simplify_app_default builds its proof, for the seed or at a later
\* position, the call goes on without an error and the next thing it does is
\* rewrite_app(e, result(e)): the rewrite engine starts from the original
\* application, with no proof and heq = false.
at_failure ==
    /\ Running("simplify_app_default", "loop")
    /\ Top.i = num_args(Top.e)
    /\ hcongr_failure(Top) # "no"

HcongrFallback ==
    at_failure =>
        /\ status' = "running" /\ exc' = exc
        /\ Len(stack') = Len(stack)
        /\ LET rw == stack'[Len(stack')]
           IN  /\ rw.fn = "rewrite" /\ rw.lhs = Top.e
               /\ rw.rhs = rewrite_app_rhs(result(Top.e))

C20_HcongrFallback == [][HcongrFallback]_vars

\* a call in which mk_hcongr_th failed after the seed has returned the
\* application it was given, without a proof
C20_Witness ==
    /\ Finished /\ Returned(Last)
    /\ Last.hcongr_failed = "later"
    /\ Last.out = Last.input.e /\ ~Last.has_proof

\* the failure at the seed is reached as well
C20_SeedFailure ==
    /\ Finished /\ Returned(Last)
    /\ Last.hcongr_failed = "seed"

\* C21 (cast erasure).  When cast is imported, no cast A B H a is handed to
\* simplify_app_congr, simplify_app_default or the rewrite engine, and when
\* its argument a comes back as c with proofs on, the result is c with
\* heq = true and the proof cast_heq(e) when a's result has no proof,
\* otherwise htrans(B, A, type of c, e, a, c, cast_heq(e), Hac'), where Hac'
\* is the proof of a's result, lifted by to_heq at the type A of a when it is
\* homogeneous.
cast_bypassed(fr) ==
    /\ fr.fn \in {"simplify_app_congr", "simplify_app_default"} => ~is_cast(fr.e)
    /\ fr.fn = "rewrite" => ~is_cast(fr.lhs)

cast_proof(e, res_a) ==
    LET A == arg(e, 1)
        B == arg(e, 2)
        a == arg(e, 4)
        c == res_a.m_out
    IN  IF ~is_some(res_a.m_proof) THEN update_app(e, 0, mk_cast_heq_fn)
        ELSE IF res_a.m_heq_proof
        THEN mk_htrans_th(B, A, tc_infer_type(c), e, a, c,
                          update_app(e, 0, mk_cast_heq_fn), the(res_a.m_proof))
        ELSE mk_htrans_th(B, A, A, e, a, c, update_app(e, 0, mk_cast_heq_fn),
                          mk_to_heq_th(A, a, c, the(res_a.m_proof)))

C21_CastErasure ==
    (status = "running" /\ m_has_cast) =>
        /\ \A n \in 1..Len(stack) : cast_bypassed(stack[n])
        /\ Running("simplify_app", "cast_ret") =>
              simplify_cast_result(Top.e, ret)
                  = result3(ret.m_out, some_expr(cast_proof(Top.e, ret)), TRUE)

\* C22 (pass control in rewrite).  After a rule has been accepted, rewrite
\* returns the composed result r1 when single_pass is on, and otherwise
\* invokes the driver on r1.out and returns the composition of r1 with what
\* the driver gives back.  When no rule is accepted, rewrite invokes the
\* driver on rhs.out exactly when single_pass is off and lhs # rhs.out, and
\* returns the composition of rhs with what the driver gives back; otherwise
\* it returns rhs as it is.
rewrite_returns(r) ==
    /\ status' = "running"
    /\ stack' = Base
    /\ ret' = r

rewrite_invokes_driver(e, pc) ==
    /\ status' = "running"
    /\ Len(stack') = Len(stack) + 1
    /\ stack'[Len(stack')].fn = "simplify" /\ stack'[Len(stack')].pc = "enter"
    /\ stack'[Len(stack')].e = e
    /\ stack'[Len(stack)].fn = "rewrite" /\ stack'[Len(stack)].pc = pc
    /\ ret' = ret

no_rule_fires ==
    /\ Running("rewrite", "find_match")
    /\ next_candidate(Top.rhs.m_out, Top.si, Top.ri)[1] > Len(m_rule_sets)

PassControl ==
    /\ Running("rewrite", "accepted") =>
          LET r1 == mk_trans_result4(Top.lhs, Top.rhs, Top.new_rhs, Top.new_proof)
          IN  IF m_single_pass THEN rewrite_returns(r1)
              ELSE /\ rewrite_invokes_driver(r1.m_out, "ret_r2")
                   /\ stack'[Len(stack)].new_r1 = r1
    /\ Running("rewrite", "ret_r2") =>
          rewrite_returns(mk_trans_result3(Top.lhs, Top.new_r1, ret))
    /\ no_rule_fires =>
          IF ~m_single_pass /\ Top.lhs # Top.rhs.m_out
          THEN rewrite_invokes_driver(Top.rhs.m_out, "ret_stab")
          ELSE rewrite_returns(Top.rhs)
    /\ Running("rewrite", "ret_stab") =>
          rewrite_returns(mk_trans_result3(Top.lhs, Top.rhs, ret))

C22_PassControl == [][PassControl]_vars

\* with single_pass on, c has been rewritten to a by the first rule and
\* returned, although the rule set has a rule for a
C22_Witness ==
    /\ Finished /\ Returned(Last)
    /\ Last.opts.single_pass
    /\ Last.input.e = cc /\ Last.input.rs = <<Rules(<<R_ca, R_ab>>)>>
    /\ Last.out = ca

\* C23 (memoization is transparent).  Two top-level calls that returned, on
\* the same input with the same options except memoize, return the same
\* term.
differ_in_memoize(c1, c2) ==
    /\ c1.input = c2.input
    /\ c1.opts.memoize # c2.opts.memoize
    /\ [c1.opts EXCEPT !.memoize = TRUE] = [c2.opts EXCEPT !.memoize = TRUE]

C23_MemoizeTransparent ==
    \A i, j \in 1..Len(calls) :
        (Returned(calls[i]) /\ Returned(calls[j]) /\ differ_in_memoize(calls[i], calls[j]))
            => calls[i].out = calls[j].out

\* C24 (new_args is assigned before it is read).  When simplify_app_congr
\* leaves its loop, every slot of new_args has been assigned, so that the
\* rebuilt application has the head and the number of arguments of e and no
\* unassigned argument; and when the hypothesis of an argument is taken from
\* new_args[dep_pos], that slot has been assigned.
rebuilding(fr) ==
    /\ fr.fn = "simplify_app_congr" /\ fr.pc = "loop"
    /\ fr.k > Len(fr.cg.arg_info)

reads_new_value(fr) ==
    /\ fr.fn = "simplify_app_congr" /\ fr.pc = "loop"
    /\ fr.k <= Len(fr.cg.arg_info)
    /\ congr_info(fr).should_simplify /\ congr_info(fr).has_context
    /\ congr_info(fr).use_new_val

C24_ArgsAssigned ==
    status = "running" =>
        /\ rebuilding(Top) =>
              /\ unassigned(Top) = {}
              /\ arg(mk_app(Top.new_args), 0) = arg(Top.e, 0)
              /\ num_args(mk_app(Top.new_args)) = num_args(Top.e)
        /\ reads_new_value(Top) => Top.new_args[congr_info(Top).ctx_arg_pos + 1] # NullE
====
